---- MODULE Spec2Model ----
(***************************************************************************)
(* Monglo: the engine and its collection registry (core/engine.py,         *)
(* core/registry.py) and the CRUD operations (operations/crud.py).         *)
(*                                                                         *)
(* Engine calls are coroutines: a call runs without interruption up to its *)
(* next store round trip (an await on the motor driver), where other calls *)
(* may run.  Each action below is one such uninterrupted run.              *)
(***************************************************************************)
EXTENDS Integers, Sequences, FiniteSets, TLC

(***************************************************************************)
(* Bounds of the model.                                                    *)
(***************************************************************************)
MaxCalls == 3
MaxDocs == 2

(***************************************************************************)
(* Collection names.  A name is a sequence of segments, so that the prefix *)
(* test of _discover_collections is computed and not assumed.              *)
(***************************************************************************)
CollNames == { <<"users">>, <<"orders">>, <<"system.", "profile">> }
NoName == << >>
system_prefixes == { <<"system.">> }

StartsWith(name, prefix) ==
    /\ Len(name) >= Len(prefix)
    /\ SubSeq(name, 1, Len(prefix)) = prefix

\* The coroutines that run engine calls; each runs one call at a time
Coroutines == { "c1", "c2" }

VARIABLES
    collections,            \* CollectionRegistry._collections: name -> admin
    initialized,            \* MongloEngine._initialized
    auto_discover,          \* MongloEngine._auto_discover
    relationship_detection, \* MongloEngine._relationship_detection
    excluded_collections,   \* MongloEngine._excluded_collections
    collection_cache,       \* RelationshipDetector._collection_cache
    db_names,               \* the collections that exist in the database
    task,                   \* task[c]: the call coroutine c is running
    calls,                  \* number of engine calls started so far
    store,                  \* the documents of the collection CRUD works on
    request                 \* the CRUD call just made, with its result

engine_vars == << collections, initialized, auto_discover,
                  relationship_detection, excluded_collections,
                  collection_cache, db_names, task, calls >>

crud_vars == << store, request >>

vars == << engine_vars, crud_vars >>

(***************************************************************************)
(* CollectionAdmin(name, database, config, relationships).  `call` is the  *)
(* identity of the object: the call that constructed it.                   *)
(***************************************************************************)
CollectionAdmin(name, call, config, relationships) ==
    [ name |-> name, call |-> call, config |-> config,
      relationships |-> relationships ]

NoAdmin == CollectionAdmin(NoName, 0, "None", "none")

IdleTask ==
    [ op |-> "none", pc |-> "idle", call |-> 0, name |-> NoName,
      cfg |-> "None", todo |-> << >>, err |-> "none", ret |-> NoAdmin,
      listed |-> {}, registered |-> {}, failed |-> {} ]

(***************************************************************************)
(* CollectionRegistry                                                      *)
(***************************************************************************)
Put(colls, admin) ==
    [ n \in DOMAIN colls \cup {admin.name} |->
        IF n = admin.name THEN admin ELSE colls[n] ]

Remove(colls, name) ==
    [ n \in DOMAIN colls \ {name} |-> colls[n] ]

\* register() without the membership test: the new admin replaces the old
registry_register_overwrite(colls, admin) ==
    [ err |-> "none", colls |-> Put(colls, admin) ]

\* register() that stores the admin before it tests for the duplicate
registry_register_late_check(colls, admin) ==
    IF admin.name \in DOMAIN colls
    THEN [ err |-> "ValueError", colls |-> Put(colls, admin) ]
    ELSE [ err |-> "none", colls |-> Put(colls, admin) ]

registry_register(colls, admin) ==
    IF admin.name \in DOMAIN colls
    THEN [ err |-> "ValueError", colls |-> colls ]
    ELSE [ err |-> "none", colls |-> Put(colls, admin) ]

registry_unregister(colls, name) == Remove(colls, name)

registry_contains(colls, name) == name \in DOMAIN colls


(***************************************************************************)
(* MongloEngine                                                            *)
(***************************************************************************)
\* initialize() without the test of _initialized
initialize_returns_early_never(is_initialized) == FALSE

\* engine.py:100  if self._initialized: return
initialize_returns_early(is_initialized) == is_initialized

\* engine.py:195  the condition of the comprehension
is_discoverable(name, excluded) ==
    /\ \A p \in system_prefixes : ~StartsWith(name, p)
    /\ name \notin excluded

RECURSIVE SelectDiscoverable(_, _)
SelectDiscoverable(names, excluded) ==
    IF names = << >> THEN << >>
    ELSE IF is_discoverable(Head(names), excluded)
         THEN << Head(names) >> \o SelectDiscoverable(Tail(names), excluded)
         ELSE SelectDiscoverable(Tail(names), excluded)

\* a handler that catches the duplicate-registration error only
discover_catches_value_error_only(err) == err = "ValueError"

\* engine.py:202  except Exception
discover_catches(err) == err \in {"ValueError", "KeyError", "StoreError"}

\* The orders in which list_collection_names() may return a set of names
RECURSIVE Orderings(_)
Orderings(S) ==
    IF S = {} THEN { << >> }
    ELSE UNION { { << n >> \o rest : rest \in Orderings(S \ {n}) } : n \in S }

(***************************************************************************)
(* The loop of _discover_collections from its next iteration on, up to the *)
(* first await: register_collection(name) raises at once for a registered  *)
(* name (caught, logged, next name) and otherwise suspends in introspect.  *)
(***************************************************************************)
RECURSIVE DiscoverLoop(_, _)
DiscoverLoop(tk, colls) ==
    IF tk.todo = << >>
    THEN [ tk EXCEPT !.pc = "done", !.name = NoName ]
    ELSE LET n == Head(tk.todo) IN
         IF registry_contains(colls, n)
         THEN IF discover_catches("ValueError")
              THEN DiscoverLoop([ tk EXCEPT !.todo = Tail(tk.todo),
                                            !.failed = @ \cup {n} ], colls)
              ELSE [ tk EXCEPT !.pc = "done", !.err = "ValueError",
                               !.name = n, !.todo = Tail(tk.todo) ]
         ELSE [ tk EXCEPT !.pc = "introspect", !.name = n, !.cfg = "None",
                          !.todo = Tail(tk.todo) ]

(***************************************************************************)
(* How a register_collection(name) call that raised `err` ends for the     *)
(* coroutine that made it: inside _discover_collections the error is       *)
(* caught and the loop goes on; elsewhere it reaches the caller.           *)
(***************************************************************************)
Raised(tk, err, colls) ==
    IF tk.op = "initialize" /\ discover_catches(err)
    THEN DiscoverLoop([ tk EXCEPT !.failed = @ \cup {tk.name} ], colls)
    ELSE [ tk EXCEPT !.pc = "done", !.err = err ]

\* register_collection(name) returned `admin`
Returned(tk, admin, colls) ==
    IF tk.op = "initialize"
    THEN DiscoverLoop([ tk EXCEPT !.registered = @ \cup {tk.name} ], colls)
    ELSE [ tk EXCEPT !.pc = "done",
                     !.ret = IF tk.op = "register_collection"
                             THEN admin ELSE NoAdmin ]

\* engine.py:161-169  create the admin, register it, return it
FinishRegistration(tk, colls, relationships) ==
    LET admin == CollectionAdmin(tk.name, tk.call, tk.cfg, relationships)
        r     == registry_register(colls, admin)
    IN  [ task  |-> IF r.err = "none" THEN Returned(tk, admin, r.colls)
                    ELSE Raised(tk, r.err, r.colls),
          colls |-> r.colls ]

\* engine.py:153-169  from relationship detection on, up to the next await
AfterConfig(tk, colls, mode, cache) ==
    IF mode = "auto"
    THEN [ task  |-> [ tk EXCEPT !.pc = IF cache = {} THEN "detect_list"
                                        ELSE "detect_sample" ],
           colls |-> colls ]
    ELSE FinishRegistration(tk, colls,
             IF mode = "manual" /\ tk.cfg = "WithRels"
             THEN "configured" ELSE "none")

\* engine.py:139-147  the duplicate test, then introspection when no config
RegisterCollectionBegin(tk, colls, mode, cache) ==
    IF registry_contains(colls, tk.name)
    THEN [ task |-> Raised(tk, "ValueError", colls), colls |-> colls ]
    ELSE IF tk.cfg = "None"
         THEN [ task  |-> [ tk EXCEPT !.pc = "introspect" ],
                colls |-> colls ]
         ELSE AfterConfig(tk, colls, mode, cache)

\* _initialized after a step that left call c in state tk
InitializedAfter(tk) ==
    initialized \/ (tk.op = "initialize" /\ tk.pc = "done" /\ tk.err = "none")

Configs == { "None", "Plain", "WithRels" }

engine_params == << auto_discover, relationship_detection,
                    excluded_collections >>

(***************************************************************************)
(* Actions                                                                 *)
(***************************************************************************)
\* Coroutine c is free to start the next call, which is call number calls+1
CanStart(c) ==
    /\ task[c].pc \in { "idle", "done" }
    /\ calls < MaxCalls

NewCall(op) == [ IdleTask EXCEPT !.op = op, !.call = calls + 1 ]

\* await engine.register_collection(n, config=cfg), up to its first await
CallRegisterCollection(c, n, cfg) ==
    /\ CanStart(c)
    /\ calls' = calls + 1
    /\ LET tk == [ NewCall("register_collection") EXCEPT
                      !.name = n, !.cfg = cfg ]
           r  == RegisterCollectionBegin(tk, collections,
                                         relationship_detection,
                                         collection_cache)
       IN  /\ task' = [ task EXCEPT ![c] = r.task ]
           /\ collections' = r.colls
    /\ UNCHANGED << initialized, engine_params, collection_cache, db_names >>
    /\ UNCHANGED crud_vars

\* introspect(name) returns a schema, or the store fails
IntrospectReturns(c, ok) ==
    /\ task[c].pc = "introspect"
    /\ LET tk == task[c]
           r  == IF ok
                 THEN AfterConfig([ tk EXCEPT !.cfg = "FromSchema" ],
                                  collections, relationship_detection,
                                  collection_cache)
                 ELSE [ task  |-> Raised(tk, "StoreError", collections),
                        colls |-> collections ]
       IN  /\ task' = [ task EXCEPT ![c] = r.task ]
           /\ collections' = r.colls
           /\ initialized' = InitializedAfter(r.task)
    /\ UNCHANGED << calls, engine_params, collection_cache, db_names >>
    /\ UNCHANGED crud_vars

\* relationships.py:147-148  the detector lists the collection names
DetectListReturns(c, ok) ==
    /\ task[c].pc = "detect_list"
    /\ LET tk == task[c]
           t2 == IF ok THEN [ tk EXCEPT !.pc = "detect_sample" ]
                 ELSE Raised(tk, "StoreError", collections)
       IN  /\ task' = [ task EXCEPT ![c] = t2 ]
           /\ initialized' = InitializedAfter(t2)
    /\ collection_cache' = IF ok THEN db_names ELSE collection_cache
    /\ UNCHANGED << calls, collections, engine_params, db_names >>
    /\ UNCHANGED crud_vars

\* relationships.py:157  the detector's sample arrives; detect() returns
DetectSampleReturns(c, ok) ==
    /\ task[c].pc = "detect_sample"
    /\ LET tk == task[c]
           r  == IF ok
                 THEN FinishRegistration(tk, collections, "detected")
                 ELSE [ task  |-> Raised(tk, "StoreError", collections),
                        colls |-> collections ]
       IN  /\ task' = [ task EXCEPT ![c] = r.task ]
           /\ collections' = r.colls
           /\ initialized' = InitializedAfter(r.task)
    /\ UNCHANGED << calls, engine_params, collection_cache, db_names >>
    /\ UNCHANGED crud_vars

\* await engine.unregister_collection(n)
CallUnregisterCollection(c, n) ==
    /\ CanStart(c)
    /\ calls' = calls + 1
    /\ collections' = registry_unregister(collections, n)
    /\ task' = [ task EXCEPT ![c] =
                   [ NewCall("unregister_collection") EXCEPT
                       !.name = n, !.pc = "done" ] ]
    /\ UNCHANGED << initialized, engine_params, collection_cache, db_names >>
    /\ UNCHANGED crud_vars

\* engine.registry.register(CollectionAdmin(n, db, cfg))
CallRegistryRegister(c, n, cfg) ==
    /\ CanStart(c)
    /\ calls' = calls + 1
    /\ LET admin == CollectionAdmin(n, calls + 1, cfg, "none")
           r     == registry_register(collections, admin)
       IN  /\ collections' = r.colls
           /\ task' = [ task EXCEPT ![c] =
                          [ NewCall("registry_register") EXCEPT
                              !.name = n, !.cfg = cfg,
                                            !.pc = "done", !.err = r.err ] ]
    /\ UNCHANGED << initialized, engine_params, collection_cache, db_names >>
    /\ UNCHANGED crud_vars

\* await engine.initialize(), up to its first await
CallInitialize(c) ==
    /\ CanStart(c)
    /\ calls' = calls + 1
    /\ LET tk == NewCall("initialize")
           t2 == IF initialize_returns_early(initialized)
                 THEN [ tk EXCEPT !.pc = "done" ]
                 ELSE IF auto_discover
                      THEN [ tk EXCEPT !.pc = "list_names" ]
                      ELSE [ tk EXCEPT !.pc = "done" ]
       IN  /\ task' = [ task EXCEPT ![c] = t2 ]
           /\ initialized' = (initialized \/
                                (t2.pc = "done" /\
                                 ~initialize_returns_early(initialized)))
    /\ UNCHANGED << collections, engine_params, collection_cache, db_names >>
    /\ UNCHANGED crud_vars

\* engine.py:188-201  list_collection_names() returns; the filter; the loop
ListNamesReturns(c, ok) ==
    /\ task[c].pc = "list_names"
    /\ \E names \in Orderings(db_names) :
         LET tk == task[c]
             t2 == IF ok
                   THEN DiscoverLoop(
                          [ tk EXCEPT !.listed = db_names,
                                      !.todo = SelectDiscoverable(
                                                 names, excluded_collections) ],
                          collections)
                   ELSE [ tk EXCEPT !.pc = "done", !.err = "StoreError" ]
         IN  /\ task' = [ task EXCEPT ![c] = t2 ]
             /\ initialized' = InitializedAfter(t2)
    /\ UNCHANGED << calls, collections, engine_params, collection_cache, db_names >>
    /\ UNCHANGED crud_vars

\* await engine.refresh_collection(n), up to its first await
CallRefreshCollection(c, n) ==
    /\ CanStart(c)
    /\ calls' = calls + 1
    /\ LET tk == [ NewCall("refresh_collection") EXCEPT !.name = n ]
       IN  IF ~registry_contains(collections, n)
           THEN /\ task' = [ task EXCEPT ![c] =
                               [ tk EXCEPT !.pc = "done", !.err = "KeyError" ] ]
                /\ UNCHANGED collections
           ELSE LET r == RegisterCollectionBegin(
                           tk, registry_unregister(collections, n),
                           relationship_detection, collection_cache)
                IN  /\ task' = [ task EXCEPT ![c] = r.task ]
                    /\ collections' = r.colls
    /\ UNCHANGED << initialized, engine_params, collection_cache, db_names >>
    /\ UNCHANGED crud_vars

\* a collection is created in the database
DbCreate(n) ==
    /\ n \notin db_names
    /\ db_names' = db_names \cup {n}
    /\ UNCHANGED << collections, initialized, engine_params,
                    collection_cache, task, calls >>
    /\ UNCHANGED crud_vars

EmptyRegistry == [ n \in {} |-> NoAdmin ]

\* The engine right after MongloEngine(database, auto_discover=...,
\* relationship_detection=..., excluded_collections=...)
EngineConstructed(discover, mode, excluded, names) ==
    /\ collections = EmptyRegistry
    /\ initialized = FALSE
    /\ auto_discover = discover
    /\ relationship_detection = mode
    /\ excluded_collections = excluded
    /\ collection_cache = {}
    /\ db_names = names
    /\ task = [ c \in Coroutines |-> IdleTask ]
    /\ calls = 0

(***************************************************************************)
(* Documents and identifiers                                               *)
(*                                                                         *)
(* An id string is a sequence of blocks of 12 characters, so that a string *)
(* of 24 hexadecimal digits, the form bson's ObjectId accepts, is two hex  *)
(* blocks; shorter, longer and non-hexadecimal strings are malformed.  A   *)
(* str and an ObjectId are different values even when they spell the same  *)
(* digits.                                                                 *)
(***************************************************************************)
HexBlocks == { "000000000000", "aaaaaaaaaaaa" }
Blocks == HexBlocks \cup { "zzzzzzzzzzzz" }

Str(v) == [ kind |-> "str", v |-> v ]
Oid(v) == [ kind |-> "oid", v |-> v ]
NoId == [ kind |-> "none", v |-> << >> ]

IdStrings == { Str(v) : v \in [ {1} -> Blocks ] \cup [ {1, 2} -> Blocks ] }
Oids == { Oid(v) : v \in [ {1, 2} -> HexBlocks ] }
IdArgs == IdStrings \cup Oids

Fields == { "name", "status" }
FieldValues == [ name |-> { "John", "Jane" }, status |-> { "active" } ]

\* the field/value parts a caller can pass, the empty one included
Bodies ==
    UNION { { b \in [ D -> UNION { FieldValues[f] : f \in Fields } ] :
                \A f \in D : b[f] \in FieldValues[f] } : D \in SUBSET Fields }

WithId(id, body) == ("_id" :> id) @@ body
Without(doc, key) == [ f \in DOMAIN doc \ {key} |-> doc[f] ]

None == [ none |-> "None" ]
NoError == [ type |-> "none", msg |-> "" ]
Error(type, msg) == [ type |-> type, msg |-> msg ]

\* bson.ObjectId(s) accepts exactly the strings of 24 hexadecimal digits
ObjectIdValid(s) ==
    /\ Len(s.v) = 2
    /\ \A i \in 1..Len(s.v) : s.v[i] \in HexBlocks

ObjectId(s) == Oid(s.v)

(***************************************************************************)
(* The store: one collection, a set of documents with distinct _id         *)
(***************************************************************************)
find_one(coll, id) ==
    IF \E d \in coll : d["_id"] = id
    THEN CHOOSE d \in coll : d["_id"] = id
    ELSE None

\* insert_one: the driver adds a fresh ObjectId when the document has none
insert_one(coll, doc, fresh) ==
    LET d == IF "_id" \in DOMAIN doc THEN doc ELSE WithId(fresh, doc)
    IN  IF \E x \in coll : x["_id"] = d["_id"]
        THEN [ err |-> Error("DuplicateKeyError", "duplicate key"),
               coll |-> coll, inserted_id |-> d["_id"] ]
        ELSE [ err |-> NoError, coll |-> coll \cup {d},
               inserted_id |-> d["_id"] ]

\* update_one with upsert=True
update_one_upsert(coll, id, fields) ==
    LET old == find_one(coll, id)
    IN  IF old = None
        THEN [ err |-> NoError, matched_count |-> 1,
               coll |-> coll \cup { WithId(id, fields) } ]
        ELSE [ err |-> NoError, matched_count |-> 1,
               coll |-> (coll \ {old}) \cup { fields @@ old } ]

\* update_one that replaces the document body
update_one_replacing(coll, id, fields) ==
    LET old == find_one(coll, id)
    IN  IF old = None
        THEN [ err |-> NoError, matched_count |-> 0, coll |-> coll ]
        ELSE [ err |-> NoError, matched_count |-> 1,
               coll |-> (coll \ {old}) \cup { WithId(old["_id"], fields) } ]

\* update_one({"_id": id}, {"$set": fields}): the named fields are set, the
\* others kept; _id is immutable; an empty $set matches and changes nothing
update_one(coll, id, fields) ==
    LET old == find_one(coll, id)
    IN  IF old = None
        THEN [ err |-> NoError, matched_count |-> 0, coll |-> coll ]
        ELSE IF "_id" \in DOMAIN fields /\ fields["_id"] # old["_id"]
        THEN [ err |-> Error("WriteError", "_id is immutable"),
               matched_count |-> 0, coll |-> coll ]
        ELSE [ err |-> NoError, matched_count |-> 1,
               coll |-> (coll \ {old}) \cup { fields @@ old } ]

\* replace_one that keeps the fields the replacement does not name
replace_one_merging(coll, id, replacement) ==
    LET old == find_one(coll, id)
    IN  IF old = None
        THEN [ err |-> NoError, matched_count |-> 0, coll |-> coll ]
        ELSE [ err |-> NoError, matched_count |-> 1,
               coll |-> (coll \ {old}) \cup { replacement @@ old } ]

\* replace_one({"_id": id}, replacement): the document becomes the
\* replacement, under the _id it had
replace_one(coll, id, replacement) ==
    LET old == find_one(coll, id)
    IN  IF old = None
        THEN [ err |-> NoError, matched_count |-> 0, coll |-> coll ]
        ELSE IF "_id" \in DOMAIN replacement
                /\ replacement["_id"] # old["_id"]
        THEN [ err |-> Error("WriteError", "_id is immutable"),
               matched_count |-> 0, coll |-> coll ]
        ELSE [ err |-> NoError, matched_count |-> 1,
               coll |-> (coll \ {old})
                          \cup { WithId(old["_id"], replacement) } ]

(***************************************************************************)
(* CRUDOperations.  Every operation yields the error it raises (or none),  *)
(* the value it returns and the collection it leaves.                      *)
(***************************************************************************)
Raise(type, msg, coll) ==
    [ err |-> Error(type, msg), ret |-> None, coll |-> coll ]

\* an emptiness test that lets every payload through
data_is_empty_never(data) == FALSE

\* `not data`
data_is_empty(data) == DOMAIN data = {}

\* a conversion that takes every string for a well-formed id
to_object_id_unchecked(id) ==
    IF id.kind = "str" THEN [ ok |-> TRUE, id |-> ObjectId(id) ]
    ELSE [ ok |-> TRUE, id |-> id ]

\* crud.py:153-157  a str id becomes an ObjectId or is rejected (InvalidId)
to_object_id(id) ==
    IF id.kind = "str"
    THEN IF ObjectIdValid(id) THEN [ ok |-> TRUE, id |-> ObjectId(id) ]
         ELSE [ ok |-> FALSE, id |-> id ]
    ELSE [ ok |-> TRUE, id |-> id ]

\* crud.py:135-164
crud_get(coll, id) ==
    LET conv == to_object_id(id) IN
    IF ~conv.ok THEN Raise("ValueError", "Invalid ObjectId", coll)
    ELSE LET document == find_one(coll, conv.id) IN
         IF document = None
         THEN Raise("KeyError", "Document not found", coll)
         ELSE [ err |-> NoError, ret |-> document, coll |-> coll ]

\* create() that inserts the payload as given, a str _id included
create_prepare_unconverted(data) == [ ok |-> TRUE, data |-> data ]

\* crud.py:188-193  a str _id in the payload becomes an ObjectId
create_prepare(data) ==
    IF "_id" \in DOMAIN data /\ data["_id"].kind = "str"
    THEN LET conv == to_object_id(data["_id"]) IN
         IF conv.ok
         THEN [ ok |-> TRUE, data |-> WithId(conv.id, Without(data, "_id")) ]
         ELSE [ ok |-> FALSE, data |-> data ]
    ELSE [ ok |-> TRUE, data |-> data ]

\* crud.py:166-200; `fresh` is the ObjectId the driver would generate
crud_create(coll, data, fresh) ==
    IF data_is_empty(data)
    THEN Raise("ValueError", "Document data cannot be empty", coll)
    ELSE LET prep == create_prepare(data) IN
         IF ~prep.ok THEN Raise("ValueError", "Invalid _id", coll)
         ELSE LET result == insert_one(coll, prep.data, fresh) IN
              IF result.err # NoError
              THEN [ err |-> result.err, ret |-> None, coll |-> result.coll ]
              ELSE [ err |-> NoError,
                     ret |-> find_one(result.coll, result.inserted_id),
                     coll |-> result.coll ]

\* crud.py:247-250  _id is removed from the update payload
strip_id(data) ==
    IF "_id" \in DOMAIN data THEN Without(data, "_id") ELSE data

\* crud.py:202-269
crud_update(coll, id, data, partial) ==
    IF data_is_empty(data)
    THEN Raise("ValueError", "Update data cannot be empty", coll)
    ELSE LET conv == to_object_id(id) IN
         IF ~conv.ok THEN Raise("ValueError", "Invalid ObjectId", coll)
         ELSE LET fields == strip_id(data)
                  result == IF partial
                            THEN update_one(coll, conv.id, fields)
                            ELSE replace_one(coll, conv.id, fields)
              IN  IF result.err # NoError
                  THEN [ err |-> result.err, ret |-> None,
                         coll |-> result.coll ]
                  ELSE IF result.matched_count = 0
                  THEN Raise("KeyError", "Document not found", result.coll)
                  ELSE [ err |-> NoError,
                         ret |-> find_one(result.coll, conv.id),
                         coll |-> result.coll ]

(***************************************************************************)
(* CRUD calls.  `request` holds the call a caller has just made: its       *)
(* arguments, the collection as it was before, the error and the result.   *)
(***************************************************************************)
NoRequest ==
    [ op |-> "none", id |-> NoId, data |-> << >>, partial |-> FALSE,
      before |-> {}, err |-> NoError, ret |-> None ]

\* the payloads of create: a body, with or without an _id of any form
CreateData == Bodies \cup { WithId(id, b) : id \in IdArgs, b \in Bodies }

\* the payloads of update: a body, with or without an _id
UpdateData ==
    Bodies \cup { WithId(Oid(<< "000000000000", "000000000000" >>), b) :
                    b \in Bodies }

Answer(op, id, data, partial, r) ==
    /\ request' = [ op |-> op, id |-> id, data |-> data, partial |-> partial,
                    before |-> store, err |-> r.err, ret |-> r.ret ]
    /\ store' = r.coll
    /\ UNCHANGED engine_vars

Get(id) ==
    /\ request.op = "none"
    /\ Answer("get", id, << >>, FALSE, crud_get(store, id))

Create(data, fresh) ==
    /\ request.op = "none"
    /\ \A d \in store : d["_id"] # fresh
    /\ LET r == crud_create(store, data, fresh)
       IN  /\ Cardinality(r.coll) <= MaxDocs
           /\ Answer("create", NoId, data, FALSE, r)

Update(id, data, partial) ==
    /\ request.op = "none"
    /\ Answer("update", id, data, partial,
              crud_update(store, id, data, partial))

\* the caller takes the result; the next call can be made
TakeResult ==
    /\ request.op # "none"
    /\ request' = NoRequest
    /\ UNCHANGED << store, engine_vars >>

CrudInit ==
    /\ store = {}
    /\ request = NoRequest
    /\ EngineConstructed(FALSE, "auto", {}, CollNames)

CrudNext ==
    \/ \E id \in IdArgs : Get(id)
    \/ \E data \in CreateData, fresh \in Oids : Create(data, fresh)
    \/ \E id \in IdArgs, data \in UpdateData, partial \in BOOLEAN :
           Update(id, data, partial)
    \/ TakeResult

SpecCrud == CrudInit /\ [][CrudNext]_vars

(***************************************************************************)
(* CRUDOperations: delete, exists, bulk_delete                             *)
(***************************************************************************)
\* delete_one that reports the match and leaves the document in place
delete_one_keeping(coll, id) ==
    [ deleted_count |-> IF find_one(coll, id) = None THEN 0 ELSE 1,
      coll |-> coll ]

\* delete_one({"_id": id}): the matching document, if any, is removed
delete_one(coll, id) ==
    LET old == find_one(coll, id)
    IN  IF old = None
        THEN [ deleted_count |-> 0, coll |-> coll ]
        ELSE [ deleted_count |-> 1, coll |-> coll \ {old} ]

\* crud.py:271-296
crud_delete(coll, id) ==
    LET conv == to_object_id(id) IN
    IF ~conv.ok THEN Raise("ValueError", "Invalid ObjectId", coll)
    ELSE LET result == delete_one(coll, conv.id)
         IN  [ err |-> NoError, ret |-> result.deleted_count > 0,
               coll |-> result.coll ]

\* crud.py:351-368  get(id), with ValueError and KeyError turned into False
crud_exists(coll, id) ==
    LET r == crud_get(coll, id)
    IN  IF r.err = NoError
        THEN [ err |-> NoError, ret |-> TRUE, coll |-> r.coll ]
        ELSE IF r.err.type \in { "ValueError", "KeyError" }
        THEN [ err |-> NoError, ret |-> FALSE, coll |-> r.coll ]
        ELSE r

Delete(id) ==
    /\ request.op = "none"
    /\ Answer("delete", id, << >>, FALSE, crud_delete(store, id))

Exists(id) ==
    /\ request.op = "none"
    /\ Answer("exists", id, << >>, FALSE, crud_exists(store, id))

\* delete_many({"_id": {"$in": ids}})
delete_many(coll, ids) ==
    LET gone == { d \in coll : d["_id"] \in ids }
    IN  [ deleted_count |-> Cardinality(gone), coll |-> coll \ gone ]

\* crud.py:315-323  the ids that convert, in order; malformed strings skipped
RECURSIVE to_object_ids(_)
to_object_ids(ids) ==
    IF ids = << >> THEN << >>
    ELSE LET conv == to_object_id(Head(ids)) IN
         IF conv.ok THEN << conv.id >> \o to_object_ids(Tail(ids))
         ELSE to_object_ids(Tail(ids))

\* crud.py:298-334
crud_bulk_delete(coll, ids) ==
    LET object_ids == to_object_ids(ids) IN
    IF object_ids = << >>
    THEN [ err |-> NoError, coll |-> coll,
           ret |-> [ deleted_count |-> 0, success |-> TRUE ] ]
    ELSE LET result == delete_many(coll, { object_ids[i] :
                                             i \in DOMAIN object_ids })
         IN  [ err |-> NoError, coll |-> result.coll,
               ret |-> [ deleted_count |-> result.deleted_count,
                         requested_count |-> Len(ids),
                         success |-> TRUE ] ]

\* the ids bulk_delete is called with: a malformed string, a string and an
\* ObjectId that spell the same identity, and a second ObjectId
BulkIdArgs ==
    { Str(<< "zzzzzzzzzzzz" >>),
      Str(<< "000000000000", "000000000000" >>),
      Oid(<< "000000000000", "000000000000" >>),
      Oid(<< "aaaaaaaaaaaa", "aaaaaaaaaaaa" >>) }

MaxIds == 2

IdLists == UNION { [ 1..n -> BulkIdArgs ] : n \in 0..MaxIds }

BulkDelete(ids) ==
    /\ request.op = "none"
    /\ LET r == crud_bulk_delete(store, ids)
       IN  /\ request' = [ op |-> "bulk_delete", ids |-> ids,
                           before |-> store, err |-> r.err, ret |-> r.ret ]
           /\ store' = r.coll
    /\ UNCHANGED engine_vars

DeleteNext ==
    \/ \E data \in CreateData, fresh \in Oids : Create(data, fresh)
    \/ \E id \in IdArgs : Delete(id)
    \/ \E id \in IdArgs : Exists(id)
    \/ \E ids \in IdLists : BulkDelete(ids)
    \/ TakeResult

SpecDelete == CrudInit /\ [][DeleteNext]_vars

(***************************************************************************)
(* QueryBuilder (core/query_builder.py)                                    *)
(*                                                                         *)
(* Values are tagged with their type: int, str (a sequence of characters   *)
(* or of id blocks), oid, bool.  A filter key is the sequence of its parts *)
(* between "__" separators: <<"age">> is "age", <<"age", "gte">> is        *)
(* "age__gte".  A filter specification is a dict, that is, a sequence of   *)
(* entries with distinct keys, in insertion order.                         *)
(***************************************************************************)
IntVal(n) == [ kind |-> "int", v |-> n ]
BoolVal(b) == [ kind |-> "bool", v |-> b ]
ListVal(s) == [ kind |-> "list", v |-> s ]

\* the field names of the model that end in "_id"
IdFields == { "_id", "user_id" }

\* query_builder.py:195-202  a str that spells an ObjectId, under a field
\* that ends in _id, becomes that ObjectId; any other value is kept
convert_value(value, field) ==
    IF field \in IdFields /\ value.kind = "str" /\ ObjectIdValid(value)
    THEN ObjectId(value)
    ELSE value

convert_values(values, field) ==
    ListVal([ i \in DOMAIN values.v |-> convert_value(values.v[i], field) ])

\* query_builder.py:60-64  key.rsplit("__", 1), for keys of one or two parts
key_field(key) == key[1]
key_operator(key) == IF Len(key) >= 2 THEN key[Len(key)] ELSE "eq"

\* a condition of a query: a literal to equal, or a document of operators
Lit(v) == [ kind |-> "lit", v |-> v ]
Cond(ops) == [ kind |-> "ops", ops |-> ops ]

Assign(query, field, cond) ==
    [ f \in DOMAIN query \cup {field} |->
        IF f = field THEN cond ELSE query[f] ]

\* a dict given as a value, e.g. {"$ne": ""}
DictVal(ops) == [ kind |-> "dict", v |-> ops ]

\* query_builder.py:68  query[field] = value: the store reads a dict of
\* operators as a condition on the field, any other value as a literal
as_condition(value) ==
    IF value.kind = "dict" THEN Cond(value.v) ELSE Lit(value)

\* query_builder.py:67-95  one entry of the filters: query[field] = ...
build_entry(query, key, value) ==
    LET field == key_field(key)
        op    == key_operator(key)
    IN  IF op = "eq"
        THEN Assign(query, field, as_condition(convert_value(value, field)))
        ELSE IF op \in { "ne", "gt", "gte", "lt", "lte" }
        THEN Assign(query, field,
                    Cond(("$" \o op) :> convert_value(value, field)))
        ELSE IF op \in { "in", "nin" }
        THEN Assign(query, field,
                    Cond(("$" \o op) :> convert_values(value, field)))
        ELSE IF op = "regex"
        THEN Assign(query, field,
                    Cond(("$regex" :> value) @@ ("$options" :> "i")))
        ELSE IF op = "range"
        THEN IF Len(value.v) = 2
             THEN Assign(query, field,
                         Cond(("$gte" :> convert_value(value.v[1], field))
                              @@ ("$lte" :> convert_value(value.v[2], field))))
             ELSE query
        ELSE IF op = "exists"
        THEN Assign(query, field, Cond("$exists" :> value.v))
        ELSE query

\* query_builder.py:53-97  the entries in order, each assigning its field
RECURSIVE build_filter_from(_, _)
build_filter_from(query, filters) ==
    IF filters = << >> THEN query
    ELSE build_filter_from(
             build_entry(query, Head(filters).key, Head(filters).value),
             Tail(filters))

build_filter(filters) == build_filter_from(<< >>, filters)

(***************************************************************************)
(* The store's evaluation of a query against a document (find,             *)
(* count_documents)                                                        *)
(***************************************************************************)
\* the characters and id blocks of the model's strings, in code-point order
Alphabet ==
    << ".", "000000000000", "A", "B", "\\", "a", "aaaaaaaaaaaa", "b", "l",
       "zzzzzzzzzzzz" >>

Rank(piece) == CHOOSE i \in DOMAIN Alphabet : Alphabet[i] = piece

Lower(c) ==
    IF c = "A" THEN "a" ELSE IF c = "B" THEN "b"
    ELSE IF c = "I" THEN "i" ELSE IF c = "T" THEN "t" ELSE c

Fold(s) == [ i \in DOMAIN s |-> Lower(s[i]) ]

\* s < t for two strings, piece by piece
RECURSIVE StringLess(_, _)
StringLess(s, t) ==
    IF t = << >> THEN FALSE
    ELSE IF s = << >> THEN TRUE
    ELSE IF Head(s) = Head(t) THEN StringLess(Tail(s), Tail(t))
    ELSE Rank(Head(s)) < Rank(Head(t))

\* a < b for two values of one type; values of different types do not compare
ValueLess(a, b) ==
    /\ a.kind = b.kind
    /\ IF a.kind = "int" THEN a.v < b.v
       ELSE IF a.kind \in { "str", "oid" } THEN StringLess(a.v, b.v)
       ELSE FALSE

Contains(s, p) ==
    \E i \in 0..(Len(s) - Len(p)) : SubSeq(s, i + 1, i + Len(p)) = p

\* the atoms of a regular expression: "." is any character, a backslash
\* makes the character after it a literal, any other character is itself
RECURSIVE RegexAtoms(_)
RegexAtoms(p) ==
    IF p = << >> THEN << >>
    ELSE IF Head(p) = "\\" /\ Len(p) >= 2
    THEN << [ any |-> FALSE, c |-> p[2] ] >> \o RegexAtoms(Tail(Tail(p)))
    ELSE IF Head(p) = "."
    THEN << [ any |-> TRUE, c |-> "." ] >> \o RegexAtoms(Tail(p))
    ELSE << [ any |-> FALSE, c |-> Head(p) ] >> \o RegexAtoms(Tail(p))

\* the regular expression p matches somewhere in s
RegexFinds(s, p, options) ==
    LET atoms == RegexAtoms(p)
        same(a, c) == IF options = "i" THEN Lower(a) = Lower(c) ELSE a = c
    IN  \E i \in 0..(Len(s) - Len(atoms)) :
            \A k \in DOMAIN atoms :
                atoms[k].any \/ same(atoms[k].c, s[i + k])

\* one operator of a condition document, for the field of a document
OpHolds(doc, field, op, arg, options) ==
    LET present == field \in DOMAIN doc IN
    IF op = "$ne" THEN ~present \/ doc[field] # arg
    ELSE IF op = "$gt" THEN present /\ ValueLess(arg, doc[field])
    ELSE IF op = "$gte"
    THEN present /\ (doc[field] = arg \/ ValueLess(arg, doc[field]))
    ELSE IF op = "$lt" THEN present /\ ValueLess(doc[field], arg)
    ELSE IF op = "$lte"
    THEN present /\ (doc[field] = arg \/ ValueLess(doc[field], arg))
    ELSE IF op = "$in"
    THEN present /\ \E i \in DOMAIN arg.v : arg.v[i] = doc[field]
    ELSE IF op = "$nin"
    THEN ~(present /\ \E i \in DOMAIN arg.v : arg.v[i] = doc[field])
    ELSE IF op = "$regex"
    THEN /\ present
         /\ doc[field].kind = "str"
         /\ RegexFinds(doc[field].v, arg.v, options)
    ELSE IF op = "$exists" THEN present = arg
    ELSE TRUE

CondHolds(doc, field, cond) ==
    IF cond.kind = "lit"
    THEN field \in DOMAIN doc /\ doc[field] = cond.v
    ELSE \A op \in DOMAIN cond.ops \ { "$options" } :
             OpHolds(doc, field, op, cond.ops[op],
                     IF "$options" \in DOMAIN cond.ops
                     THEN cond.ops["$options"] ELSE "")

\* a query document: field conditions, and "$and" / "$or" lists of queries
RECURSIVE Matches(_, _)
Matches(doc, query) ==
    \A k \in DOMAIN query :
        IF k = "$and"
        THEN \A i \in DOMAIN query[k] : Matches(doc, query[k][i])
        ELSE IF k = "$or"
        THEN \E i \in DOMAIN query[k] : Matches(doc, query[k][i])
        ELSE CondHolds(doc, k, query[k])

\* the filter entries the calls are made with
FilterEntry(key, value) == [ key |-> key, value |-> value ]

FilterEntries ==
    { FilterEntry(<< "age" >>, IntVal(n)) : n \in { 1, 2 } }
    \cup { FilterEntry(<< "age", op >>, IntVal(2)) :
             op \in { "eq", "ne", "gt", "gte", "lt", "lte" } }
    \cup { FilterEntry(<< "age", op >>, ListVal(<< IntVal(1), IntVal(3) >>)) :
             op \in { "in", "nin" } }
    \cup { FilterEntry(<< "age", "range" >>, ListVal(v)) :
             v \in { << IntVal(1), IntVal(2) >>, << IntVal(2) >> } }
    \cup { FilterEntry(<< "age", "exists" >>, BoolVal(b)) : b \in BOOLEAN }
    \cup { FilterEntry(<< "name", "regex" >>, Str(p)) :
             p \in { << "a", "l" >>, << "B" >> } }
    \cup { FilterEntry(<< "user_id" >>, v) :
             v \in { Str(<< "000000000000", "000000000000" >>),
                     Oid(<< "aaaaaaaaaaaa", "aaaaaaaaaaaa" >>),
                     Str(<< "zzzzzzzzzzzz" >>) } }

MaxEntries == 2

\* dicts of at most MaxEntries entries: the keys are pairwise distinct
FilterSpecs ==
    UNION { { f \in [ 1..n -> FilterEntries ] :
                \A i, j \in 1..n : i # j => f[i].key # f[j].key } :
            n \in 0..MaxEntries }

\* query = QueryBuilder.build_filter(filters)
BuildFilter(filters) ==
    /\ request.op = "none"
    /\ request' = [ op |-> "build_filter", filters |-> filters,
                    before |-> store, err |-> NoError,
                    ret |-> build_filter(filters) ]
    /\ UNCHANGED << store, engine_vars >>

FilterNext ==
    \/ \E filters \in FilterSpecs : BuildFilter(filters)
    \/ TakeResult

SpecFilter == CrudInit /\ [][FilterNext]_vars

\* filter entries as a request handler passes them on from a JSON body:
\* values that are strings, and values that are dicts of operators
InjectionEntries ==
    << FilterEntry(<< "name" >>, Str(<< "a" >>)),
       FilterEntry(<< "name" >>, DictVal("$ne" :> Str(<< "b" >>))),
       FilterEntry(<< "name" >>,
                   DictVal(("$regex" :> Str(<< "." >>))
                           @@ ("$options" :> "i"))),
       FilterEntry(<< "name", "eq" >>, Str(<< "b" >>)),
       FilterEntry(<< "name", "eq" >>, DictVal("$gt" :> Str(<< >>))),
       FilterEntry(<< "name", "ne" >>, Str(<< "a" >>)),
       FilterEntry(<< "name", "ne" >>, DictVal("$ne" :> Str(<< "b" >>))),
       FilterEntry(<< "name", "regex" >>, Str(<< "a" >>)),
       FilterEntry(<< "age", "range" >>, ListVal(<< IntVal(1), IntVal(2) >>)),
       FilterEntry(<< "age", "range" >>, ListVal(<< IntVal(2) >>)),
       FilterEntry(<< "age", "gte" >>, IntVal(1)),
       FilterEntry(<< "age", "gte" >>, DictVal("$lt" :> IntVal(2))),
       FilterEntry(<< "age", "in" >>, ListVal(<< IntVal(1) >>)),
       FilterEntry(<< "age", "exists" >>, BoolVal(TRUE)) >>

\* dicts of at most MaxEntries of these entries, with distinct keys
InjectionSpecs ==
    UNION { { pick \in [ 1..n -> DOMAIN InjectionEntries ] :
                \A i, j \in 1..n :
                    i # j => InjectionEntries[pick[i]].key
                                 # InjectionEntries[pick[j]].key } :
            n \in 0..MaxEntries }

InjectNext ==
    \/ \E pick \in InjectionSpecs :
           BuildFilter([ i \in DOMAIN pick |-> InjectionEntries[pick[i]] ])
    \/ TakeResult

SpecInject == CrudInit /\ [][InjectNext]_vars

(***************************************************************************)
(* CRUDOperations.list (operations/crud.py) and the QueryBuilder helpers   *)
(* it calls                                                                *)
(***************************************************************************)
\* re.escape: a backslash before every special character
RECURSIVE re_escape(_)
re_escape(s) ==
    IF s = << >> THEN << >>
    ELSE IF Head(s) \in { ".", "\\" }
    THEN << "\\", Head(s) >> \o re_escape(Tail(s))
    ELSE << Head(s) >> \o re_escape(Tail(s))

\* a search query that passes the term to the store as it is
build_search_query_unescaped(search, fields) ==
    IF search = None \/ fields = << >> THEN << >>
    ELSE "$or" :> [ i \in DOMAIN fields |->
                      fields[i] :> Cond(("$regex" :> search)
                                        @@ ("$options" :> "i")) ]

\* query_builder.py:99-133
build_search_query(search, fields) ==
    IF search = None \/ search.v = << >> \/ fields = << >> THEN << >>
    ELSE "$or" :> [ i \in DOMAIN fields |->
                      fields[i] :> Cond(("$regex" :> Str(re_escape(search.v)))
                                        @@ ("$options" :> "i")) ]

SortKey(field, direction) == [ field |-> field, direction |-> direction ]

\* query_builder.py:135-152
build_sort(sort) ==
    IF sort = << >> THEN << SortKey("_id", 1) >> ELSE sort

NonEmpty(q) == q # << >>

\* query_builder.py:154-179
combine_queries(queries) ==
    LET non_empty == SelectSeq(queries, NonEmpty) IN
    IF non_empty = << >> THEN << >>
    ELSE IF Len(non_empty) = 1 THEN non_empty[1]
    ELSE "$and" :> non_empty

Max(a, b) == IF a >= b THEN a ELSE b
Min(a, b) == IF a <= b THEN a ELSE b

\* query_builder.py:204-231
build_pagination_query(page, per_page, max_per_page) ==
    LET p  == Max(1, page)
        pp == Max(1, Min(per_page, max_per_page))
    IN  [ skip |-> (p - 1) * pp, limit |-> pp ]

\* collection.count_documents(query)
count_documents(coll, query) ==
    Cardinality({ d \in coll : Matches(d, query) })

\* d comes before e under the sort specification; a missing field sorts first
RECURSIVE DocBefore(_, _, _)
DocBefore(d, e, sort_spec) ==
    IF sort_spec = << >> THEN FALSE
    ELSE LET k  == Head(sort_spec)
             hd == k.field \in DOMAIN d
             he == k.field \in DOMAIN e
             lt == IF hd /\ he THEN ValueLess(d[k.field], e[k.field])
                   ELSE ~hd /\ he
             gt == IF hd /\ he THEN ValueLess(e[k.field], d[k.field])
                   ELSE hd /\ ~he
         IN  IF k.direction >= 0
             THEN lt \/ (~gt /\ DocBefore(d, e, Tail(sort_spec)))
             ELSE gt \/ (~lt /\ DocBefore(d, e, Tail(sort_spec)))

RECURSIVE Sorted(_, _)
Sorted(docs, sort_spec) ==
    IF docs = {} THEN << >>
    ELSE LET first == CHOOSE d \in docs :
                          \A e \in docs : ~DocBefore(e, d, sort_spec)
         IN  << first >> \o Sorted(docs \ {first}, sort_spec)

\* collection.find(query).sort(sort_spec).skip(skip).limit(limit).to_list()
find(coll, query, sort_spec, skip, limit) ==
    LET all == Sorted({ d \in coll : Matches(d, query) }, sort_spec)
    IN  SubSeq(all, skip + 1, Min(Len(all), skip + limit))

\* crud.py:123  (total + per_page - 1) // per_page if per_page > 0 else 1
total_pages(total, per_page) ==
    IF per_page > 0 THEN (total + per_page - 1) \div per_page ELSE 1

\* the part of the collection's config that list reads
ListConfig(search_fields, max_per_page, default_sort) ==
    [ search_fields |-> search_fields, max_per_page |-> max_per_page,
      default_sort |-> default_sort ]

\* crud.py:45-133
crud_list(coll, config, page, per_page, filters, sort, search) ==
    LET filter_query == IF filters = << >> THEN << >>
                        ELSE build_filter(filters)
        search_query == IF search = None \/ search.v = << >>
                           \/ config.search_fields = << >>
                        THEN << >>
                        ELSE build_search_query(search, config.search_fields)
        final_query  == combine_queries(<< filter_query, search_query >>)
        total        == count_documents(coll, final_query)
        pq           == build_pagination_query(page, per_page,
                                               config.max_per_page)
        sort_spec    == build_sort(IF sort # << >> THEN sort
                                   ELSE config.default_sort)
        items        == find(coll, final_query, sort_spec, pq.skip, pq.limit)
        pages        == total_pages(total, per_page)
    IN  [ items |-> items, total |-> total, page |-> page,
          per_page |-> per_page, pages |-> pages,
          has_next |-> page < pages, has_prev |-> page > 1 ]

\* the documents of the listed collection: an _id, a name and a status
ListDocs ==
    { WithId(id, ("name" :> n) @@ ("status" :> s)) :
        id \in Oids,
        n \in { Str(<< "A", "l" >>), Str(<< "a", ".", "b" >>) },
        s \in { Str(<< "a" >>), Str(<< "b" >>) } }

MaxListDocs == 3

\* the collections of at most MaxListDocs documents, with distinct _id
ListStores ==
    { S \in SUBSET ListDocs :
        /\ Cardinality(S) <= MaxListDocs
        /\ \A d, e \in S : d["_id"] = e["_id"] => d = e }

\* the configs, filters, sorts and search terms list is called with
ListConfigs ==
    { ListConfig(<< "name" >>, m, << >>) : m \in { 2, 100 } }

ListFilters == { << >>, << FilterEntry(<< "status" >>, Str(<< "a" >>)) >> }

ListSorts == { << >>, << SortKey("_id", -1) >> }

ListSearches == { None, Str(<< "a" >>), Str(<< "." >>) }

ListPages == { 0, 1 }

ListPerPages == { -1, 0, 1, 2, 3 }

\* result = await crud.list(page=..., per_page=..., filters=..., sort=...,
\* search=...): the first call of a walk through the pages
ListCall(config, page, per_page, filters, sort, search) ==
    /\ request.op = "none"
    /\ LET r == crud_list(store, config, page, per_page, filters, sort,
                          search)
       IN  request' = [ op |-> "list", config |-> config, first |-> page,
                        per_page |-> per_page, filters |-> filters,
                        sort |-> sort, search |-> search, before |-> store,
                        err |-> NoError, ret |-> r, walked |-> << r >> ]
    /\ UNCHANGED << store, engine_vars >>

\* the caller asks for the page after the one it got, with the same
\* arguments, up to one page beyond the last
ListNextPage ==
    /\ request.op = "list"
    /\ request.ret.page <= request.ret.pages
    /\ LET r == crud_list(store, request.config, request.ret.page + 1,
                          request.per_page, request.filters, request.sort,
                          request.search)
       IN  request' = [ request EXCEPT !.ret = r,
                                       !.walked = Append(@, r) ]
    /\ UNCHANGED << store, engine_vars >>

ListInit ==
    /\ store \in ListStores
    /\ request = NoRequest
    /\ EngineConstructed(FALSE, "auto", {}, CollNames)

ListNext ==
    \/ \E config \in ListConfigs, page \in ListPages,
          per_page \in ListPerPages, filters \in ListFilters,
          sort \in ListSorts, search \in ListSearches :
           ListCall(config, page, per_page, filters, sort, search)
    \/ ListNextPage
    \/ TakeResult

SpecList == ListInit /\ [][ListNext]_vars

(***************************************************************************)
(* PaginationHandler.paginate_cursor (operations/pagination.py)            *)
(***************************************************************************)
\* pagination.py:141  per_page = max(1, min(per_page, 100))
CursorMaxPerPage == 100

\* Python truth of a cursor: None, 0 and the empty string are false
Truthy(value) ==
    /\ value # None
    /\ value.kind = "int" => value.v # 0
    /\ value.kind = "str" => value.v # << >>

\* pagination.py:146  if cursor:
cursor_given(cursor) == Truthy(cursor)

\* pagination.py:148-151  ObjectId(cursor), or the cursor itself if that fails
cursor_value(cursor) ==
    IF cursor.kind = "str" /\ ObjectIdValid(cursor) THEN ObjectId(cursor)
    ELSE cursor

\* pagination.py:154-157
cursor_condition(value, sort_direction) ==
    IF sort_direction >= 0 THEN Cond("$gt" :> value)
    ELSE Cond("$lt" :> value)

\* pagination.py:173-177  str() of an ObjectId, any other value as it is
next_cursor_of(item, sort_field) ==
    IF sort_field \notin DOMAIN item THEN None
    ELSE IF item[sort_field].kind = "oid" THEN Str(item[sort_field].v)
    ELSE item[sort_field]

\* pagination.py:99-188
paginate_cursor(coll, query, cursor, per_page, sort_field, sort_direction) ==
    LET pp           == Max(1, Min(per_page, CursorMaxPerPage))
        cursor_query == IF cursor_given(cursor)
                        THEN Assign(query, sort_field,
                                    cursor_condition(cursor_value(cursor),
                                                     sort_direction))
                        ELSE query
        found        == find(coll, cursor_query,
                             << SortKey(sort_field, sort_direction) >>,
                             0, pp + 1)
        has_next     == Len(found) > pp
        items        == IF has_next THEN SubSeq(found, 1, pp) ELSE found
    IN  [ items |-> items, per_page |-> pp, has_next |-> has_next,
          next_cursor |-> IF has_next /\ items # << >>
                          THEN next_cursor_of(items[Len(items)], sort_field)
                          ELSE None ]

\* the documents of the paginated collection: an _id and a value
CursorDocs ==
    { WithId(id, "value" :> IntVal(n)) : id \in Oids, n \in 0..3 }

MaxCursorDocs == 3

\* collections whose _id and whose value are pairwise distinct
CursorStores ==
    { S \in SUBSET CursorDocs :
        /\ Cardinality(S) <= MaxCursorDocs
        /\ \A d, e \in S :
               (d["_id"] = e["_id"] \/ d["value"] = e["value"]) => d = e }

CursorQueries == { << >>, "value" :> Cond("$lte" :> IntVal(2)) }

MaxWalk == 4

\* result = await handler.paginate_cursor(query, cursor=None, ...): the
\* first call of a walk
CursorCall(query, per_page, sort_field, sort_direction) ==
    /\ request.op = "none"
    /\ LET r == paginate_cursor(store, query, None, per_page, sort_field,
                                sort_direction)
       IN  request' = [ op |-> "paginate_cursor", query |-> query,
                        per_page |-> per_page, sort_field |-> sort_field,
                        sort_direction |-> sort_direction, before |-> store,
                        err |-> NoError, ret |-> r, walked |-> << r >> ]
    /\ UNCHANGED << store, engine_vars >>

\* the caller feeds the page's next_cursor into the next call, with the same
\* query, per_page, sort_field and sort_direction
CursorNextPage ==
    /\ request.op = "paginate_cursor"
    /\ request.ret.has_next
    /\ Len(request.walked) < MaxWalk
    /\ LET r == paginate_cursor(store, request.query,
                                request.ret.next_cursor, request.per_page,
                                request.sort_field, request.sort_direction)
       IN  request' = [ request EXCEPT !.ret = r,
                                       !.walked = Append(@, r) ]
    /\ UNCHANGED << store, engine_vars >>

CursorInit ==
    /\ store \in CursorStores
    /\ request = NoRequest
    /\ EngineConstructed(FALSE, "auto", {}, CollNames)

CursorNext ==
    \/ \E query \in CursorQueries, per_page \in { 0, 1, 2 },
          sort_field \in { "_id", "value" }, sort_direction \in { 1, -1 } :
           CursorCall(query, per_page, sort_field, sort_direction)
    \/ CursorNextPage
    \/ TakeResult

SpecCursor == CursorInit /\ [][CursorNext]_vars

(***************************************************************************)
(* RelationshipResolver.resolve_batch (relationships.py:387-467).  The     *)
(* database is a function from collection names to collections; every      *)
(* find the resolver issues is recorded, in order, with its collection     *)
(* and its query document.                                                 *)
(***************************************************************************)
\* relationships.py:37-70  the dataclass; target_field defaults to "_id"
Relationship(source_collection, source_field, target_collection, target_field, type) ==
    [ source_collection |-> source_collection, source_field |-> source_field,
      target_collection |-> target_collection, target_field |-> target_field,
      type |-> type ]

\* relationships.py:441  .to_list(1000)
BatchLimit == 1000

\* self.db[name]: a collection that was never written to is empty
collection_of(db, name) == IF name \in DOMAIN db THEN db[name] ELSE {}

\* a gathering that leaves the lists out
RECURSIVE ref_values_without_lists(_, _)
ref_values_without_lists(documents, source_field) ==
    IF documents = << >> THEN << >>
    ELSE LET doc  == Head(documents)
             rest == ref_values_without_lists(Tail(documents), source_field)
         IN  IF source_field \in DOMAIN doc
                /\ doc[source_field].kind # "list"
             THEN << doc[source_field] >> \o rest
             ELSE rest

\* relationships.py:423-433  the reference values of all documents, lists
\* flattened, in document order
RECURSIVE ref_values(_, _)
ref_values(documents, source_field) ==
    IF documents = << >> THEN << >>
    ELSE LET doc  == Head(documents)
             rest == ref_values(Tail(documents), source_field)
         IN  IF source_field \in DOMAIN doc
             THEN (IF doc[source_field].kind = "list"
                   THEN doc[source_field].v
                   ELSE << doc[source_field] >>) \o rest
             ELSE rest

\* one find per reference value
batch_queries_per_value(rel, values) ==
    [ i \in DOMAIN values |->
        [ collection |-> rel.target_collection,
          query |-> rel.target_field :> Cond("$in" :> ListVal(<< values[i] >>)) ] ]

\* relationships.py:439-441  the one find of a relationship:
\* {target_field: {"$in": ref_values}}
batch_queries(rel, values) ==
    << [ collection |-> rel.target_collection,
         query |-> rel.target_field :> Cond("$in" :> ListVal(values)) ] >>

\* the documents the issued finds return, in the order they arrive
RECURSIVE query_results(_, _)
query_results(db, queries) ==
    IF queries = << >> THEN << >>
    ELSE find(collection_of(db, Head(queries).collection),
              Head(queries).query, << >>, 0, BatchLimit)
         \o query_results(db, Tail(queries))

\* relationships.py:444-447  {doc[target_field]: doc for doc in related_docs}:
\* a later document replaces an earlier one with the same key
related_map_of(related_docs, target_field) ==
    LET keys == { related_docs[i][target_field] : i \in DOMAIN related_docs }
    IN  [ k \in keys |->
            related_docs[CHOOSE i \in DOMAIN related_docs :
                /\ related_docs[i][target_field] = k
                /\ \A j \in DOMAIN related_docs :
                       related_docs[j][target_field] = k => j <= i] ]

\* relationships.py:450-465  the related documents of one source document
attach(resolved, source_doc, rel, related_map) ==
    LET ref_val == source_doc[rel.source_field]
        rels    == resolved["_relationships"].v
        set(v)  == [ resolved EXCEPT !["_relationships"] =
                       [ kind |-> "dict",
                         v |-> (rel.source_field :> v) @@ rels ] ]
    IN  IF ref_val.kind = "list"
        THEN set(ListVal(SelectSeq(
                 [ i \in DOMAIN ref_val.v |->
                     IF ref_val.v[i] \in DOMAIN related_map
                     THEN related_map[ref_val.v[i]] ELSE None ],
                 LAMBDA d : d # None)))
        ELSE IF ref_val \in DOMAIN related_map
        THEN set(related_map[ref_val])
        ELSE resolved

\* relationships.py:421-465  one turn of the loop over the relationships
resolve_relationship(db, documents, acc, rel) ==
    LET values == ref_values(documents, rel.source_field) IN
    IF values = << >> THEN acc
    ELSE LET queries      == batch_queries(rel, values)
             related_map  == related_map_of(query_results(db, queries),
                                            rel.target_field)
         IN  [ docs    |-> [ idx \in DOMAIN documents |->
                               IF rel.source_field \in DOMAIN documents[idx]
                               THEN attach(acc.docs[idx], documents[idx],
                                           rel, related_map)
                               ELSE acc.docs[idx] ],
               queries |-> acc.queries \o queries ]

RECURSIVE resolve_loop(_, _, _, _)
resolve_loop(db, documents, acc, relationships) ==
    IF relationships = << >> THEN acc
    ELSE resolve_loop(db, documents,
                      resolve_relationship(db, documents, acc,
                                           Head(relationships)),
                      Tail(relationships))

\* relationships.py:387-467
resolve_batch(db, documents, relationships, depth) ==
    IF depth <= 0 \/ documents = << >>
    THEN [ docs |-> documents, queries |-> << >> ]
    ELSE resolve_loop(db, documents,
             [ docs    |-> [ idx \in DOMAIN documents |->
                               ("_relationships" :>
                                    [ kind |-> "dict", v |-> << >> ])
                               @@ documents[idx] ],
               queries |-> << >> ],
             relationships)

\* the ids the documents of the batches refer to
RefA == Oid(<< "000000000000", "000000000000" >>)
RefB == Oid(<< "aaaaaaaaaaaa", "aaaaaaaaaaaa" >>)

\* the orders of a batch: with or without a user_id, with or without a
\* list of tag_ids, which may be empty
SourceDocs ==
    { u @@ t : u \in { << >>, "user_id" :> RefA, "user_id" :> RefB },
               t \in { << >>, "tag_ids" :> ListVal(<< >>),
                       "tag_ids" :> ListVal(<< RefA, RefB >>) } }

MaxBatch == 2

Batches == UNION { [ 1..n -> SourceDocs ] : n \in 0..MaxBatch }

\* the relationships of the orders; no order has a coupon_id
BatchRelationships ==
    { Relationship(<<"orders">>, "user_id", <<"users">>, "_id", "one_to_one"),
      Relationship(<<"orders">>, "tag_ids", <<"tags">>, "_id", "one_to_many"),
      Relationship(<<"orders">>, "coupon_id", <<"coupons">>, "_id",
                   "one_to_one") }

MaxRels == 2

RelationshipLists ==
    UNION { [ 1..n -> BatchRelationships ] : n \in 0..MaxRels }

\* the databases the batches are resolved against
ResolveStores ==
    { (<<"users">> :> U) @@ (<<"tags">> :> T) :
        U \in { {}, { WithId(RefA, "name" :> Str(<< "a" >>)) } },
        T \in { {}, { WithId(RefA, "name" :> Str(<< "b" >>)),
                      WithId(RefB, "name" :> Str(<< "l" >>)) } } }

\* resolved = await resolver.resolve_batch(documents, relationships, depth)
ResolveBatch(documents, relationships, depth) ==
    /\ request.op = "none"
    /\ LET r == resolve_batch(store, documents, relationships, depth)
       IN  request' = [ op |-> "resolve_batch", documents |-> documents,
                        relationships |-> relationships, depth |-> depth,
                        before |-> store, err |-> NoError, ret |-> r.docs,
                        queries |-> r.queries ]
    /\ UNCHANGED << store, engine_vars >>

ResolveInit ==
    /\ store \in ResolveStores
    /\ request = NoRequest
    /\ EngineConstructed(FALSE, "auto", {}, CollNames)

ResolveNext ==
    \/ \E documents \in Batches, relationships \in RelationshipLists,
          depth \in { 0, 1 } :
           ResolveBatch(documents, relationships, depth)
    \/ TakeResult

SpecResolve == ResolveInit /\ [][ResolveNext]_vars

(***************************************************************************)
(* RelationshipDetector._detect_in_document (relationships.py:174-251).    *)
(* Field and collection names are sequences of characters here, so that    *)
(* endswith, the slices and the pluralization work on what they work on    *)
(* in the code.  A document is the sequence of its items, in dict order.   *)
(***************************************************************************)
\* str.endswith(suffix)
EndsWith(s, suffix) ==
    /\ Len(s) >= Len(suffix)
    /\ SubSeq(s, Len(s) - Len(suffix) + 1, Len(s)) = suffix

Suffix_id  == << "_", "i", "d" >>
Suffix_ids == << "_", "i", "d", "s" >>

\* relationships.py:296  "aeiou"
Vowels == { "a", "e", "i", "o", "u" }

\* relationships.py:298  ("s", "ss", "x", "z", "ch", "sh")
EsEndings == { << "s" >>, << "s", "s" >>, << "x" >>, << "z" >>,
               << "c", "h" >>, << "s", "h" >> }

\* a pluralization that appends "s" to every word
pluralize_appending_s(word) == word \o << "s" >>

\* relationships.py:281-301  _pluralize
pluralize(word) ==
    IF /\ EndsWith(word, << "y" >>)
       /\ Len(word) > 1
       /\ word[Len(word) - 1] \notin Vowels
    THEN SubSeq(word, 1, Len(word) - 1) \o << "i", "e", "s" >>
    ELSE IF \E ending \in EsEndings : EndsWith(word, ending)
    THEN word \o << "e", "s" >>
    ELSE word \o << "s" >>

\* relationships.py:253-279  _guess_collection_from_field
guess_collection_from_field(field) ==
    IF EndsWith(field, Suffix_ids)
    THEN pluralize(SubSeq(field, 1, Len(field) - 4))
    ELSE IF EndsWith(field, Suffix_id)
    THEN pluralize(SubSeq(field, 1, Len(field) - 3))
    ELSE pluralize(field)

\* bson.DBRef(collection, id)
DBRef(collection, id) ==
    [ kind |-> "dbref", v |-> [ collection |-> collection, id |-> id ] ]

\* relationships.py:190-249  one turn of the loop over document.items():
\* the relationships the field adds, none or one
detect_in_field(cache, collection_name, field, value) ==
    LET rel(target, type) ==
            << Relationship(collection_name, field, target, "_id", type) >>
        guess == guess_collection_from_field(field)
    IN  IF field = Suffix_id THEN << >>
        ELSE IF /\ EndsWith(field, Suffix_id) \/ EndsWith(field, Suffix_ids)
                /\ guess \in cache
        THEN rel(guess, IF EndsWith(field, Suffix_ids)
                        THEN "one_to_many" ELSE "one_to_one")
        ELSE IF value.kind = "oid"
        THEN IF ~EndsWith(field, Suffix_id) /\ pluralize(field) \in cache
             THEN rel(pluralize(field), "one_to_one")
             ELSE << >>
        ELSE IF /\ value.kind = "list"
                /\ value.v # << >>
                /\ value.v[1].kind = "oid"
        THEN IF guess \in cache THEN rel(guess, "one_to_many") ELSE << >>
        ELSE IF value.kind = "dbref"
        THEN rel(value.v.collection, "one_to_one")
        ELSE << >>

\* relationships.py:174-251
RECURSIVE detect_in_document(_, _, _)
detect_in_document(cache, collection_name, document) ==
    IF document = << >> THEN << >>
    ELSE detect_in_field(cache, collection_name, Head(document).field,
                         Head(document).value)
         \o detect_in_document(cache, collection_name, Tail(document))

\* the words the field names are made of
Stems ==
    { << "u", "s", "e", "r" >>, << "c", "i", "t", "y" >>,
      << "d", "a", "y" >>, << "b", "u", "s" >>,
      << "c", "l", "a", "s", "s" >>, << "b", "o", "x" >>,
      << "q", "u", "i", "z" >>, << "m", "a", "t", "c", "h" >>,
      << "d", "i", "s", "h" >>, << "y" >> }

\* the fields of the sampled documents: a word, a word with _id or _ids,
\* and _ids alone
DetectFields ==
    { stem \o suffix : stem \in Stems,
                       suffix \in { << >>, Suffix_id, Suffix_ids } }
    \cup { Suffix_ids }

Accounts == << "a", "c", "c", "o", "u", "n", "t", "s" >>
Orders   == << "o", "r", "d", "e", "r", "s" >>

\* the values of the fields: an ObjectId, lists, a string, DBRefs
DetectValues ==
    << RefA, ListVal(<< RefA >>), ListVal(<< >>), Str(<< "a" >>),
       DBRef(Accounts, RefA), DBRef(<< "u", "s", "e", "r", "s" >>, RefB) >>

Item(field, value) == [ field |-> field, value |-> value ]

\* a sampled document: the _id and one field, or two fields
DetectDoc(field, value, more) ==
    << Item(Suffix_id, RefB), Item(field, value) >>
    \o (IF more
        THEN << Item(<< "u", "s", "e", "r", "_", "i", "d" >>, RefA) >>
        ELSE << >>)

\* the names a collection of the database can have: words with s, with es
\* and with ies, a field name with es, and a name no field leads to
DetectNames ==
    { word \o << "s" >> :
        word \in { << "u", "s", "e", "r" >>, << "d", "a", "y" >>, << "y" >>,
                   << "c", "i", "t", "y" >>, << "b", "o", "x" >>, << >> } }
    \cup { word \o << "e", "s" >> :
             word \in { << "b", "u", "s" >>, << "c", "l", "a", "s", "s" >>,
                        << "b", "o", "x" >>, << "q", "u", "i", "z" >>,
                        << "m", "a", "t", "c", "h" >>,
                        << "d", "i", "s", "h" >>,
                        << "u", "s", "e", "r" >> \o Suffix_ids } }
    \cup { word \o << "i", "e", "s" >> :
             word \in { << "c", "i", "t" >>, << "d", "a" >> } }
    \cup { Accounts }

MaxCache == 2

DetectCaches == { S \in SUBSET DetectNames : Cardinality(S) <= MaxCache }

\* self._detect_in_document(collection_name, doc)
DetectInDocument(document) ==
    /\ request.op = "none"
    /\ request' = [ op |-> "detect_in_document", document |-> document,
                    cache |-> collection_cache, err |-> NoError,
                    ret |-> detect_in_document(collection_cache, Orders,
                                               document) ]
    /\ UNCHANGED << store, engine_vars >>

\* self._pluralize(word)
Pluralize(word) ==
    /\ request.op = "none"
    /\ request' = [ op |-> "pluralize", word |-> word, err |-> NoError,
                    ret |-> pluralize(word) ]
    /\ UNCHANGED << store, engine_vars >>

\* the detector after detect() has filled its cache with the names of the
\* database (relationships.py:147-148)
DetectInit ==
    /\ collection_cache \in DetectCaches
    /\ db_names = collection_cache
    /\ collections = EmptyRegistry
    /\ initialized = FALSE
    /\ auto_discover = FALSE
    /\ relationship_detection = "auto"
    /\ excluded_collections = {}
    /\ task = [ c \in Coroutines |-> IdleTask ]
    /\ calls = 0
    /\ store = {}
    /\ request = NoRequest

DetectNext ==
    \/ \E field \in DetectFields, k \in DOMAIN DetectValues,
          more \in BOOLEAN :
           /\ more => field # << "u", "s", "e", "r", "_", "i", "d" >>
           /\ DetectInDocument(DetectDoc(field, DetectValues[k], more))
    \/ \E word \in Stems \cup DetectFields : Pluralize(word)
    \/ TakeResult

SpecDetect == DetectInit /\ [][DetectNext]_vars

(***************************************************************************)
(* RelationshipDetector.detect (relationships.py:125-172).  The database   *)
(* of these calls is a record: the documents of the collection in natural  *)
(* order, and the number of list_collection_names calls it has served;     *)
(* db_names are the collections that exist.                                *)
(***************************************************************************)
\* a detector that lists the names on every call
cache_is_empty_always(cache) == TRUE

\* relationships.py:146  if not self._collection_cache
cache_is_empty(cache) == cache = {}

\* relationships.py:166-170  the relationships of one document are added
\* unless their field has been detected already
RECURSIVE add_detected(_, _, _)
add_detected(new_rels, relationships, detected_fields) ==
    IF new_rels = << >>
    THEN [ relationships |-> relationships,
           detected_fields |-> detected_fields ]
    ELSE LET rel == Head(new_rels) IN
         IF rel.source_field \notin detected_fields
         THEN add_detected(Tail(new_rels), Append(relationships, rel),
                           detected_fields \cup { rel.source_field })
         ELSE add_detected(Tail(new_rels), relationships, detected_fields)

\* relationships.py:164-170  the loop over the sample
RECURSIVE detect_loop(_, _, _, _, _)
detect_loop(cache, collection_name, sample, relationships, detected_fields) ==
    IF sample = << >> THEN relationships
    ELSE LET r == add_detected(
                      detect_in_document(cache, collection_name, Head(sample)),
                      relationships, detected_fields)
         IN  detect_loop(cache, collection_name, Tail(sample),
                         r.relationships, r.detected_fields)

\* relationships.py:150-172  detect, once the cache is there: the manual
\* relationships of the config first, then the detected ones
detect(cache, collection_name, config_relationships, sample) ==
    detect_loop(cache, collection_name, sample, config_relationships, {})

Users   == << "u", "s", "e", "r", "s" >>
Authors == << "a", "u", "t", "h", "o", "r", "s" >>
user_id == << "u", "s", "e", "r" >> \o Suffix_id
author  == << "a", "u", "t", "h", "o", "r" >>

\* the documents of the sampled collection
SampleDocs ==
    << << Item(Suffix_id, RefA), Item(author, RefA) >>,
       << Item(Suffix_id, RefA), Item(author, DBRef(Accounts, RefB)) >>,
       << Item(Suffix_id, RefB), Item(author, ListVal(<< RefA >>)) >>,
       << Item(Suffix_id, RefB), Item(user_id, RefA) >>,
       << Item(Suffix_id, RefB), Item(user_id, DBRef(Accounts, RefA)),
          Item(author, Str(<< "a" >>)) >> >>

MaxSample == 2

\* the collection: up to MaxSample documents in natural order, each named
\* by its position in SampleDocs
Samples == UNION { [ 1..n -> DOMAIN SampleDocs ] : n \in 0..MaxSample }

\* self.db[collection_name].find().limit(sample_size).to_list(sample_size)
sample_of(db) == [ i \in DOMAIN db.sample |-> SampleDocs[db.sample[i]] ]

\* config.relationships: none, one on user_id, one on author and user_id
ConfigRelationships ==
    << << >>,
       << Relationship(Orders, user_id, Accounts, "_id", "one_to_one") >>,
       << Relationship(Orders, author, Accounts, "_id", "one_to_many"),
          Relationship(Orders, user_id, Users, "_id", "one_to_one") >> >>

MaxListings == 2

\* relationships = await detector.detect("orders", config)
Detect(k) ==
    /\ request.op = "none"
    /\ LET lists == cache_is_empty(collection_cache)
           cache == IF lists THEN db_names ELSE collection_cache
       IN  /\ lists => store.list_calls < MaxListings
           /\ collection_cache' = cache
           /\ store' = [ store EXCEPT !.list_calls =
                                        IF lists THEN @ + 1 ELSE @ ]
           /\ request' = [ op |-> "detect",
                           config |-> ConfigRelationships[k],
                           cache |-> cache, err |-> NoError,
                           ret |-> detect(cache, Orders,
                                          ConfigRelationships[k],
                                          sample_of(store)) ]
    /\ UNCHANGED << collections, initialized, engine_params, db_names,
                    task, calls >>

DetectorInit ==
    /\ collection_cache = {}
    /\ db_names \in SUBSET { Users, Authors }
    /\ collections = EmptyRegistry
    /\ initialized = FALSE
    /\ auto_discover = FALSE
    /\ relationship_detection = "auto"
    /\ excluded_collections = {}
    /\ task = [ c \in Coroutines |-> IdleTask ]
    /\ calls = 0
    /\ store \in { [ sample |-> s, list_calls |-> 0 ] : s \in Samples }
    /\ request = NoRequest

DetectorNext ==
    \/ \E k \in DOMAIN ConfigRelationships : Detect(k)
    \/ TakeResult
    \/ \E n \in { Users, Authors, Accounts } : DbCreate(n)

SpecDetector == DetectorInit /\ [][DetectorNext]_vars

(***************************************************************************)
(* RelationshipResolver.resolve (relationships.py:330-385), and a caller   *)
(* that resolves one document both ways against the same database          *)
(***************************************************************************)
\* relationships.py:372  .to_list(100)
ResolveLimit == 100

\* collection.find_one(query): a matching document, or None
find_one_matching(coll, query) ==
    LET found == find(coll, query, << >>, 0, 1)
    IN  IF found = << >> THEN None ELSE found[1]

\* relationships.py:361-383  one turn of the loop over the relationships:
\* the value stored under the source field, if one is stored
resolve_one(db, document, rels, rel) ==
    LET ref_value == document[rel.source_field]
        coll      == collection_of(db, rel.target_collection)
    IN  IF rel.source_field \notin DOMAIN document THEN rels
        ELSE IF rel.type \in { "one_to_one", "one_to_many" }
        THEN IF ref_value.kind = "list"
             THEN (rel.source_field :>
                     ListVal(find(coll,
                                  rel.target_field
                                      :> Cond("$in" :> ListVal(ref_value.v)),
                                  << >>, 0, ResolveLimit))) @@ rels
             ELSE (rel.source_field :>
                     find_one_matching(coll,
                                       rel.target_field :> Lit(ref_value)))
                  @@ rels
        ELSE IF rel.type = "embedded"
        THEN (rel.source_field :> ref_value) @@ rels
        ELSE rels

RECURSIVE resolve_rels(_, _, _, _)
resolve_rels(db, document, rels, relationships) ==
    IF relationships = << >> THEN rels
    ELSE resolve_rels(db, document,
                      resolve_one(db, document, rels, Head(relationships)),
                      Tail(relationships))

\* relationships.py:330-385
resolve(db, document, relationships, depth) ==
    IF depth <= 0 THEN document
    ELSE ("_relationships" :>
              [ kind |-> "dict",
                v |-> resolve_rels(db, document, << >>, relationships) ])
         @@ document

\* the relationships of the orders, of every type
TypedRelationships ==
    BatchRelationships
    \cup { Relationship(<<"orders">>, "user_id", <<"users">>, "_id",
                        "embedded"),
           Relationship(<<"orders">>, "tag_ids", <<"tags">>, "_id",
                        "many_to_many") }

TypedRelationshipLists ==
    UNION { [ 1..n -> TypedRelationships ] : n \in 0..MaxRels }

\* single = await resolver.resolve(d, rels, depth)
\* batch  = await resolver.resolve_batch([d], rels, depth)
ResolveBothWays(document, relationships, depth) ==
    /\ request.op = "none"
    /\ request' = [ op |-> "resolve_both_ways", document |-> document,
                    relationships |-> relationships, depth |-> depth,
                    before |-> store, err |-> NoError,
                    single |-> resolve(store, document, relationships,
                                       depth),
                    batch |-> resolve_batch(store, << document >>,
                                            relationships, depth).docs ]
    /\ UNCHANGED << store, engine_vars >>

AgreeNext ==
    \/ \E document \in SourceDocs, relationships \in TypedRelationshipLists,
          depth \in { 0, 1 } :
           ResolveBothWays(document, relationships, depth)
    \/ TakeResult

SpecAgree == ResolveInit /\ [][AgreeNext]_vars

(***************************************************************************)
(* SchemaIntrospector.introspect (introspection.py:38-102).  A document is *)
(* the sequence of its << key, value >> pairs, a dict given as a value     *)
(* holds such a sequence, and field_info and the schema are sequences in   *)
(* the insertion order of their dicts.                                     *)
(***************************************************************************)
NullVal == [ kind |-> "null", v |-> << >> ]
FloatVal(n) == [ kind |-> "float", v |-> n ]

\* introspection.py:151-191  _detect_type
detect_type(value) ==
    IF value.kind = "null" THEN "null"
    ELSE IF value.kind = "bool" THEN "boolean"
    ELSE IF value.kind = "int" THEN "integer"
    ELSE IF value.kind = "float" THEN "number"
    ELSE IF value.kind = "str" THEN "string"
    ELSE IF value.kind = "oid" THEN "objectid"
    ELSE IF value.kind = "dbref" THEN "dbref"
    ELSE IF value.kind = "dict" THEN "embedded"
    ELSE IF value.kind = "list" THEN "array"
    ELSE "unknown"

SampleValuesKept == 5

\* introspection.py:68-73  the defaultdict's entry of a path not seen yet
new_field_info(path) ==
    [ path |-> path, types |-> << >>, count |-> 0, null_count |-> 0,
      sample_values |-> << >>, array_item_type |-> "" ]

\* field_info[path]: the entry of the path, added when it is not there
entry_of(field_info, path) ==
    IF \E i \in DOMAIN field_info : field_info[i].path = path
    THEN field_info
    ELSE Append(field_info, new_field_info(path))

position_of(field_info, path) ==
    CHOOSE i \in DOMAIN field_info : field_info[i].path = path

\* types[tag] += 1 on a defaultdict(int): << tag, count >> in insertion order
count_type(types, tag) ==
    IF \E i \in DOMAIN types : types[i][1] = tag
    THEN [ i \in DOMAIN types |->
             IF types[i][1] = tag THEN << tag, types[i][2] + 1 >>
                                  ELSE types[i] ]
    ELSE Append(types, << tag, 1 >>)

\* introspection.py:120-134  count, type, nulls and sample values of a value
record_value(info, value) ==
    [ info EXCEPT
        !.count = @ + 1,
        !.types = count_type(@, detect_type(value)),
        !.null_count = IF value.kind = "null" THEN @ + 1 ELSE @,
        !.sample_values = IF Len(@) < SampleValuesKept
                          THEN Append(@, value) ELSE @ ]

RECURSIVE analyze_document(_, _, _)
\* introspection.py:117-149  one key of the document
analyze_field(field_info, field_path, value) ==
    LET seen == entry_of(field_info, field_path)
        at   == position_of(seen, field_path)
        info == [ seen EXCEPT ![at] = record_value(@, value) ]
    IN  IF value.kind = "dict"
        THEN analyze_document(
                 value.v,
                 [ info EXCEPT ![at].types = count_type(@, "embedded") ],
                 field_path \o ".")
        ELSE IF value.kind = "list" /\ value.v # << >>
        THEN LET counted ==
                     [ info EXCEPT ![at].types = count_type(@, "array") ]
                 first_elem == value.v[1]
             IN  IF first_elem.kind = "dict"
                 THEN analyze_document(
                          first_elem.v,
                          [ counted EXCEPT
                              ![at].array_item_type = "embedded" ],
                          field_path \o ".[].")
                 ELSE [ counted EXCEPT
                          ![at].array_item_type = detect_type(first_elem) ]
        ELSE info

\* introspection.py:104-149  _analyze_document
analyze_document(doc, field_info, prefix) ==
    IF doc = << >> THEN field_info
    ELSE analyze_document(
             Tail(doc),
             analyze_field(field_info, prefix \o Head(doc)[1], Head(doc)[2]),
             prefix)

RECURSIVE analyze_documents(_, _)
\* introspection.py:75-76  for doc in documents
analyze_documents(documents, field_info) ==
    IF documents = << >> THEN field_info
    ELSE analyze_documents(Tail(documents),
                           analyze_document(Head(documents), field_info, ""))

\* introspection.py:85  max(info["types"].items(), key=lambda x: x[1])[0]:
\* the first item, in insertion order, whose count no item exceeds
primary_type(types) ==
    LET first == CHOOSE i \in DOMAIN types :
                     /\ \A j \in DOMAIN types : types[j][2] <= types[i][2]
                     /\ \A j \in 1..(i - 1) : types[j][2] < types[i][2]
    IN  types[first][1]

\* introspection.py:83-100  the schema entry of a path
schema_entry(info, total_docs) ==
    [ path |-> info.path,
      type |-> primary_type(info.types),
      frequency |-> << info.count, total_docs >>,
      nullable |-> info.null_count > 0,
      sample_values |-> SubSeq(info.sample_values, 1,
                               IF Len(info.sample_values) < SampleValuesKept
                               THEN Len(info.sample_values)
                               ELSE SampleValuesKept),
      array_item_type |-> info.array_item_type,
      alternative_types |->
          IF Len(info.types) > 1
          THEN [ i \in DOMAIN info.types |-> info.types[i][1] ]
          ELSE << >> ]

\* introspection.py:60-102  introspect, given the documents of the collection
introspect(found, sample_size) ==
    LET documents == SubSeq(found, 1, IF Len(found) < sample_size
                                      THEN Len(found) ELSE sample_size)
        field_info == analyze_documents(documents, << >>)
    IN  IF documents = << >> THEN << >>
        ELSE [ i \in DOMAIN field_info |->
                 schema_entry(field_info[i], Len(documents)) ]

\* the documents a collection can hold
IntrospectDocs ==
    << << << "a", NullVal >> >>,
       << << "a", BoolVal(TRUE) >> >>,
       << << "a", IntVal(1) >> >>,
       << << "a", FloatVal(1) >> >>,
       << << "a", Str(<< "s" >>) >> >>,
       << << "a", Oid(<< "000000000000", "000000000000" >>) >> >>,
       << << "a", DictVal(<< << "x", IntVal(1) >> >>) >> >>,
       << << "a", ListVal(<< >>) >> >>,
       << << "a", ListVal(<< IntVal(1) >>) >> >>,
       << << "a", ListVal(<< DictVal(<< << "x", Str(<< "s" >>) >> >>) >>) >>,
          << "b", IntVal(2) >> >>,
       << << "b", Str(<< "t" >>) >>, << "a", Str(<< "t" >>) >> >> >>

MaxIntrospected == 3

\* the collection: the positions in IntrospectDocs of its documents
IntrospectCollections ==
    UNION { [ 1..n -> DOMAIN IntrospectDocs ] : n \in 0..MaxIntrospected }

documents_of(coll) == [ i \in DOMAIN coll |-> IntrospectDocs[coll[i]] ]

Introspect(sample_size) ==
    /\ request.op = "none"
    /\ request' = [ op |-> "introspect", sample_size |-> sample_size,
                    err |-> NoError,
                    ret |-> introspect(documents_of(store), sample_size) ]
    /\ UNCHANGED << store, engine_vars >>

IntrospectInit ==
    /\ store \in IntrospectCollections
    /\ request = NoRequest
    /\ EngineConstructed(FALSE, "auto", {}, CollNames)

IntrospectNext ==
    \/ \E sample_size \in 1..MaxIntrospected : Introspect(sample_size)
    \/ TakeResult

SpecIntrospect == IntrospectInit /\ [][IntrospectNext]_vars

(***************************************************************************)
(* TransactionManager.with_retry (transactions.py:89-129).  `store` is the *)
(* frame of the call: where it is, the attempt, the last error, and what   *)
(* the operation and the event loop have seen of it (the outcome of every  *)
(* invocation, every backoff wait).  `request` gets the finished call.     *)
(***************************************************************************)
\* an exception: its class, its code when it has one, its message
Exception(type, has_code, code, msg) == [ type |-> type, has_code |-> has_code, code |-> code, msg |-> msg ]

NoException == Exception("none", FALSE, 0, << >>)

\* transactions.py:142-148  error_codes
TransientCodes == { 112, 117, 262, 11600, 11602 }

\* transactions.py:155-160  transient_keywords
TransientKeywords ==
    { << "t", "r", "a", "n", "s", "i", "e", "n", "t" >>,
      << "t", "e", "m", "p", "o", "r", "a", "r", "y" >>,
      << "t", "i", "m", "e", "o", "u", "t" >>,
      << "i", "n", "t", "e", "r", "r", "u", "p", "t", "e", "d" >> }

\* a manager that would take every store error for a transient one
is_transient_error_always(error) == TRUE

\* transactions.py:131-162  _is_transient_error
is_transient_error(error) ==
    IF error.has_code /\ error.code \in TransientCodes
    THEN TRUE
    ELSE LET error_msg == Fold(error.msg)
         IN  \E keyword \in TransientKeywords : Contains(error_msg, keyword)

\* except PyMongoError: the classes of pymongo.errors
PyMongoErrors == { "PyMongoError", "OperationFailure", "AutoReconnect" }

\* transactions.py:127  0.1 * (2 ** attempt), in tenths of a second
backoff(attempt) == 2 ^ attempt

\* what one invocation of the operation comes to: a result or an exception
Outcome(ok, value, error) == [ ok |-> ok, value |-> value, error |-> error ]

IdleFrame ==
    [ pc |-> "idle", max_retries |-> 0, attempt |-> 0,
      last_error |-> NoException, outcomes |-> << >>, waits |-> << >> ]

\* with_retry returns value, or raises error, to its caller
Leave(frame, value, error) ==
    /\ request' = [ op |-> "with_retry", max_retries |-> frame.max_retries,
                    outcomes |-> frame.outcomes, waits |-> frame.waits,
                    err |-> IF error.type = "none" THEN NoError
                            ELSE Error(error.type, ""),
                    raised |-> error, ret |-> value ]
    /\ store' = IdleFrame

\* transactions.py:107-111  last_error = None; for attempt in range(...)
WithRetry(max_retries) ==
    /\ request.op = "none"
    /\ store.pc = "idle"
    /\ store' = [ IdleFrame EXCEPT
                    !.max_retries = max_retries,
                    !.pc = IF max_retries > 0 THEN "try" ELSE "exhausted" ]
    /\ UNCHANGED << request, engine_vars >>

\* transactions.py:112-123  return await operation(), and the except clause
Invoke(outcome) ==
    /\ store.pc = "try"
    /\ LET frame == [ store EXCEPT !.outcomes = Append(@, outcome) ]
           e == outcome.error
       IN  IF outcome.ok
           THEN Leave(frame, outcome.value, NoException)
           ELSE IF e.type \notin PyMongoErrors
           THEN Leave(frame, None, e)
           ELSE IF ~ is_transient_error(e)
           THEN Leave(frame, None, e)
           ELSE IF store.attempt = store.max_retries - 1
           THEN Leave(frame, None, e)
           ELSE /\ store' = [ frame EXCEPT !.last_error = e, !.pc = "sleep" ]
                /\ UNCHANGED request
    /\ UNCHANGED engine_vars

\* transactions.py:125-127  await asyncio.sleep(...), then the next attempt
Sleep ==
    /\ store.pc = "sleep"
    /\ store' = [ store EXCEPT
                    !.waits = Append(@, backoff(store.attempt)),
                    !.attempt = @ + 1,
                    !.pc = IF store.attempt + 1 < store.max_retries
                           THEN "try" ELSE "exhausted" ]
    /\ UNCHANGED << request, engine_vars >>

\* transactions.py:129  raise last_error; raising None is a TypeError
RaiseLast ==
    /\ store.pc = "exhausted"
    /\ Leave(store, None,
             IF store.last_error.type = "none"
             THEN Exception("TypeError", FALSE, 0, << >>)
             ELSE store.last_error)
    /\ UNCHANGED engine_vars

Timeout == << "T", "i", "m", "e", "o", "u", "t" >>
Interrupted == << "I", "n", "t", "e", "r", "r", "u", "p", "t", "e", "d" >>

\* what an operation can come to
Outcomes ==
    { Outcome(TRUE, IntVal(1), NoException),
      Outcome(FALSE, None, Exception("OperationFailure", TRUE, 112, << "b" >>)),
      Outcome(FALSE, None, Exception("AutoReconnect", FALSE, 0, Timeout)),
      Outcome(FALSE, None, Exception("OperationFailure", TRUE, 262, << >>)),
      Outcome(FALSE, None, Exception("PyMongoError", FALSE, 0, Interrupted)),
      Outcome(FALSE, None, Exception("OperationFailure", TRUE, 11000, << "b" >>)),
      Outcome(FALSE, None, Exception("PyMongoError", FALSE, 0, << "b" >>)),
      Outcome(FALSE, None, Exception("ValueError", FALSE, 0, Timeout)) }

MaxRetries == 3

RetryInit ==
    /\ store = IdleFrame
    /\ request = NoRequest
    /\ EngineConstructed(FALSE, "auto", {}, CollNames)

RetryNext ==
    \/ \E max_retries \in 0..MaxRetries : WithRetry(max_retries)
    \/ \E outcome \in Outcomes : Invoke(outcome)
    \/ Sleep
    \/ RaiseLast
    \/ TakeResult

\* the event loop runs every awaited step of the call: the operation is
\* invoked and comes to an outcome, the sleep ends, the raise is executed
SpecRetry ==
    /\ RetryInit
    /\ [][RetryNext]_vars
    /\ WF_vars(\E outcome \in Outcomes : Invoke(outcome))
    /\ WF_vars(Sleep)
    /\ WF_vars(RaiseLast)

(***************************************************************************)
(* The engine specifications                                               *)
(***************************************************************************)
CrudIdle ==
    /\ store = {}
    /\ request = NoRequest

\* the names the calls of SpecEngine are made with
CallNames == { <<"users">>, <<"orders">> }

EngineInit ==
    /\ \E mode \in { "auto", "manual", "off" } :
           EngineConstructed(FALSE, mode, {}, CollNames)
    /\ CrudIdle

EngineNext ==
    \/ \E c \in Coroutines, n \in CallNames, cfg \in Configs :
           CallRegisterCollection(c, n, cfg)
    \/ \E c \in Coroutines, ok \in BOOLEAN : IntrospectReturns(c, ok)
    \/ \E c \in Coroutines, ok \in BOOLEAN : DetectListReturns(c, ok)
    \/ \E c \in Coroutines, ok \in BOOLEAN : DetectSampleReturns(c, ok)
    \/ \E c \in Coroutines, n \in CallNames : CallUnregisterCollection(c, n)
    \/ \E c \in Coroutines, n \in CallNames, cfg \in Configs \ {"None"} :
           CallRegistryRegister(c, n, cfg)
    \/ \E c \in Coroutines, n \in CallNames : CallRefreshCollection(c, n)

SpecEngine == EngineInit /\ [][EngineNext]_vars

\* auto-discovery over a database that holds a user collection and a system
\* collection at first, and where further collections get created
DiscoverInit ==
    /\ \E discover \in BOOLEAN, excluded \in { {}, { <<"orders">> } } :
           EngineConstructed(discover, "off", excluded,
                             { <<"users">>, <<"system.", "profile">> })
    /\ CrudIdle

DiscoverNext ==
    \/ \E c \in Coroutines : CallInitialize(c)
    \/ \E c \in Coroutines, ok \in BOOLEAN : ListNamesReturns(c, ok)
    \/ \E c \in Coroutines, ok \in BOOLEAN : IntrospectReturns(c, ok)
    \/ \E c \in Coroutines, n \in CollNames, cfg \in { "None", "WithRels" } :
           CallRegisterCollection(c, n, cfg)
    \/ \E c \in Coroutines, n \in CollNames : CallUnregisterCollection(c, n)
    \/ \E n \in CollNames : DbCreate(n)

SpecDiscover == DiscoverInit /\ [][DiscoverNext]_vars

\* register_collection calls alone, racing on the registry
RaceNext ==
    \/ \E c \in Coroutines, n \in CallNames, cfg \in Configs :
           CallRegisterCollection(c, n, cfg)
    \/ \E c \in Coroutines, ok \in BOOLEAN : IntrospectReturns(c, ok)
    \/ \E c \in Coroutines, ok \in BOOLEAN : DetectListReturns(c, ok)
    \/ \E c \in Coroutines, ok \in BOOLEAN : DetectSampleReturns(c, ok)

SpecRace == EngineInit /\ [][RaceNext]_vars

(***************************************************************************)
(* Properties                                                              *)
(***************************************************************************)
\* coroutine c takes this step as part of a call that registers name n
RegisteringStep(c, n) ==
    /\ task'[c] # task[c]
    /\ task'[c].op \in { "register_collection", "registry_register" }
    /\ task'[c].name = n

\* this step starts a call on coroutine c
StartsCall(c) == task'[c].call = calls + 1

\* C1: registering a name that is already in the registry fails and leaves
\* the registry as it was.  Whenever a step of registry.register(admin) or of
\* register_collection(name) is taken while the name is registered, the
\* registry is unchanged (the existing admin stays, no other entry changes),
\* a call that ends in that step ends with an error, and a call that starts
\* in that step ends at once with ValueError.
C1_DuplicateRegistrationRejected ==
    [][ \A c \in Coroutines, n \in DOMAIN collections :
          RegisteringStep(c, n) =>
            /\ collections' = collections
            /\ task'[c].pc = "done" =>
                 task'[c].err \in { "ValueError", "StoreError" }
            /\ StartsCall(c) =>
                 task'[c].pc = "done" /\ task'[c].err = "ValueError"
      ]_vars

\* both kinds of call have been rejected for a name that stays mapped to the
\* admin of an earlier call
C1_Witness ==
    \E c1, c2 \in Coroutines :
        /\ task[c1].op = "register_collection"
        /\ task[c2].op = "registry_register"
        /\ task[c1].err = "ValueError" /\ task[c2].err = "ValueError"
        /\ task[c1].name = task[c2].name
        /\ task[c1].name \in DOMAIN collections
        /\ collections[task[c1].name].call \notin { task[c1].call, task[c2].call }

\* two finished register_collection calls for one name, neither of which
\* lost a store round trip
FinishedPair(c1, c2) ==
    /\ c1 # c2
    /\ task[c1].op = "register_collection" /\ task[c1].pc = "done"
    /\ task[c2].op = "register_collection" /\ task[c2].pc = "done"
    /\ task[c1].name = task[c2].name
    /\ task[c1].err # "StoreError" /\ task[c2].err # "StoreError"

\* call `winner` registered the name, call `loser` was rejected
Won(winner, loser) ==
    LET a == collections[task[winner].name] IN
    /\ task[winner].err = "none"
    /\ task[winner].ret = a
    /\ a.call = task[winner].call
    /\ task[loser].err = "ValueError"
    /\ task[loser].ret = NoAdmin

\* C2: of two register_collection calls for the same name that interleave at
\* their store round trips, exactly one succeeds and the other is rejected
\* with the duplicate-registration error; the registry maps the name to the
\* admin the successful call returned.  (When an earlier call had registered
\* the name, both are rejected and that earlier admin stays.)
C2_ConcurrentRegistrationOneWinner ==
    \A c1, c2 \in Coroutines :
        FinishedPair(c1, c2) =>
          /\ task[c1].name \in DOMAIN collections
          /\ \/ Won(c1, c2)
             \/ Won(c2, c1)
             \/ /\ collections[task[c1].name].call
                      \notin { task[c1].call, task[c2].call }
                /\ task[c1].err = "ValueError"
                /\ task[c2].err = "ValueError"

\* the rejected call had passed the first duplicate test and introspected
\* the collection: it lost the race at registry.register
C2_Witness ==
    \E c1, c2 \in Coroutines :
        /\ FinishedPair(c1, c2)
        /\ Won(c1, c2)
        /\ task[c2].cfg = "FromSchema"
        /\ task[c1].cfg = "FromSchema"

\* an initialize() call that has completed
InitializeCompleted(tk) ==
    tk.op = "initialize" /\ tk.pc = "done" /\ tk.err = "none"

\* C3: initialize() is idempotent.  Once a call of initialize() has
\* completed the engine is initialized and stays so, and every initialize()
\* call started from then on returns in its first step, before any store
\* round trip: it lists no collections and leaves the registry, the
\* detector's cache and the database untouched, whatever was registered,
\* unregistered or created in between.
C3_InitializeIdempotent ==
    /\ [](\A c \in Coroutines : InitializeCompleted(task[c]) => initialized)
    /\ [][ /\ initialized => initialized'
           /\ \A c \in Coroutines :
                ( /\ initialized
                  /\ StartsCall(c)
                  /\ task'[c].op = "initialize" ) =>
                    /\ InitializeCompleted(task'[c])
                    /\ task'[c].listed = {}
                    /\ task'[c].registered = {} /\ task'[c].failed = {}
                    /\ collections' = collections
                    /\ collection_cache' = collection_cache
                    /\ db_names' = db_names
       ]_vars

\* with auto-discovery on, a third call, initialize(), has returned without
\* listing anything, after a collection was created in the database and
\* while discovered collections are registered
C3_Witness ==
    \E c \in Coroutines :
        /\ auto_discover
        /\ InitializeCompleted(task[c])
        /\ task[c].call = MaxCalls
        /\ task[c].listed = {}
        /\ <<"orders">> \in db_names
        /\ <<"users">> \in DOMAIN collections

\* the names auto-discovery has to register, of the names the database listed
Eligible(listed) ==
    { n \in listed : Head(n) # "system." /\ n \notin excluded_collections }

\* an initialize() call that has run the auto-discovery pass to its end
DiscoveryEnded(tk) ==
    tk.op = "initialize" /\ tk.pc = "done" /\ tk.listed # {}

\* C4: with auto-discovery on, initialize() registers the listed collections
\* that are neither system collections nor excluded, and no other.  A
\* collection whose registration fails is logged and the pass goes on: when
\* the pass has ended initialize() has completed without error, the engine is
\* initialized, and every eligible collection was either registered or
\* logged as failed.  A collection is registered in the step that records it
\* as registered, with an admin made by this call.
C4_DiscoveryRegistersEligible ==
    /\ [](\A c \in Coroutines :
            LET tk == task[c] IN
            /\ tk.registered \cup tk.failed \subseteq Eligible(tk.listed)
            /\ tk.registered \cap tk.failed = {}
            /\ DiscoveryEnded(tk) =>
                 /\ tk.err = "none"
                 /\ initialized
                 /\ tk.registered \cup tk.failed = Eligible(tk.listed))
    /\ [][ \A c \in Coroutines :
             \A n \in task'[c].registered \ task[c].registered :
                 /\ n \in DOMAIN collections'
                 /\ collections'[n].call = task'[c].call
                 /\ n \notin DOMAIN collections
       ]_vars

\* a pass has ended in which one collection failed to register and another
\* was registered, while a system collection was listed
C4_Witness ==
    \E c \in Coroutines :
        /\ DiscoveryEnded(task[c])
        /\ task[c].failed = { <<"users">> }
        /\ task[c].registered = { <<"orders">> }
        /\ <<"system.", "profile">> \in task[c].listed
        /\ <<"orders">> \in DOMAIN collections
        /\ initialized

\* what the claims call a well-formed id: an ObjectId, or a string of 24
\* hexadecimal digits; and the identity such an id denotes
WellFormedId(id) ==
    \/ id.kind = "oid"
    \/ /\ id.kind = "str"
       /\ Len(id.v) = 2
       /\ \A i \in 1..2 : id.v[i] \in { "000000000000", "aaaaaaaaaaaa" }

IdentityOf(id) == [ kind |-> "oid", v |-> id.v ]

Stored(coll, id) == \E d \in coll : d["_id"] = IdentityOf(id)

NamedFields(data) == DOMAIN data \ { "_id" }

\* C5: create(data) and update(id, data, partial) with empty data fail with
\* ValueError before any store write: whatever the id (well-formed or not,
\* stored or not) and whatever partial, the collection after the call is the
\* collection before it.
C5_EmptyDataRejectedBeforeWrite ==
    ( /\ request.op \in { "create", "update" }
      /\ DOMAIN request.data = {} ) =>
        /\ request.err.type = "ValueError"
        /\ request.ret = None
        /\ store = request.before

\* a full-replacement update with empty data of a stored document that has
\* fields to lose
C5_Witness ==
    /\ request.op = "update"
    /\ DOMAIN request.data = {}
    /\ ~request.partial
    /\ request.id.kind = "str"
    /\ WellFormedId(request.id)
    /\ \E d \in store : d["_id"] = IdentityOf(request.id) /\ NamedFields(d) # {}

\* C6: a successful update(id, data, partial=true) is a merge.  The stored
\* document with identity id has the fields named in data (the identity field
\* apart) set to the given values and every other field as before, its
\* identity is unchanged even when data names one, no other document has
\* changed, and the document returned is the stored one.
C6_PartialUpdateMerges ==
    ( /\ request.op = "update"
      /\ request.partial
      /\ request.err = NoError ) =>
        \E old \in request.before, new \in store :
            /\ old["_id"] = IdentityOf(request.id)
            /\ new["_id"] = IdentityOf(request.id)
            /\ DOMAIN new = DOMAIN old \cup NamedFields(request.data)
            /\ \A f \in NamedFields(request.data) : new[f] = request.data[f]
            /\ \A f \in NamedFields(old) \ NamedFields(request.data) :
                   new[f] = old[f]
            /\ store \ {new} = request.before \ {old}
            /\ request.ret = new

\* a partial update whose data names another identity and changes one field
\* of a document that keeps a second field, beside a second document
C6_Witness ==
    /\ request.op = "update"
    /\ request.partial
    /\ request.err = NoError
    /\ "_id" \in DOMAIN request.data
    /\ request.data["_id"] # request.ret["_id"]
    /\ NamedFields(request.data) # {}
    /\ NamedFields(request.ret) \ NamedFields(request.data) # {}
    /\ request.ret \notin request.before
    /\ Cardinality(store) = 2

\* C7: a successful update(id, data, partial=false) is a full replacement.
\* The stored document with identity id consists of the identity field,
\* still id, and the fields of data other than the identity field; the old
\* fields that data does not name are gone; no other document has changed.
C7_FullUpdateReplaces ==
    ( /\ request.op = "update"
      /\ ~request.partial
      /\ request.err = NoError ) =>
        \E old \in request.before, new \in store :
            /\ old["_id"] = IdentityOf(request.id)
            /\ new["_id"] = IdentityOf(request.id)
            /\ DOMAIN new = { "_id" } \cup NamedFields(request.data)
            /\ \A f \in NamedFields(request.data) : new[f] = request.data[f]
            /\ store \ {new} = request.before \ {old}

\* a replacement that dropped a field of the old document, beside a second
\* document
C7_Witness ==
    /\ request.op = "update"
    /\ ~request.partial
    /\ request.err = NoError
    /\ \E old \in request.before :
           /\ old["_id"] = request.ret["_id"]
           /\ NamedFields(old) \ NamedFields(request.data) # {}
    /\ NamedFields(request.data) # {}
    /\ Cardinality(store) = 2

\* C8: update(id, data, partial) for a well-formed id that no stored document
\* has fails and creates nothing: the collection is unchanged, for partial
\* true and false.  The error is KeyError for every update payload (the
\* empty payload is rejected before the id is looked at, with ValueError).
C8_UpdateMissingIsNotFound ==
    ( /\ request.op = "update"
      /\ WellFormedId(request.id)
      /\ ~Stored(request.before, request.id) ) =>
        /\ store = request.before
        /\ request.ret = None
        /\ request.err.type =
             IF DOMAIN request.data = {} THEN "ValueError" ELSE "KeyError"

\* a partial update with a payload, for an id given as a string that none of
\* the stored documents has
C8_Witness ==
    /\ request.op = "update"
    /\ request.partial
    /\ request.id.kind = "str"
    /\ WellFormedId(request.id)
    /\ ~Stored(request.before, request.id)
    /\ NamedFields(request.data) # {}
    /\ request.before # {}
    /\ request.err.type = "KeyError"

\* C9: get(id) returns the stored document whose identity is id; it fails
\* with ValueError for a malformed id string and with KeyError for a
\* well-formed id that no document has; it never modifies the store.
C9_GetByIdentity ==
    request.op = "get" =>
        /\ store = request.before
        /\ IF ~WellFormedId(request.id)
           THEN request.err.type = "ValueError" /\ request.ret = None
           ELSE IF ~Stored(store, request.id)
           THEN request.err.type = "KeyError" /\ request.ret = None
           ELSE /\ request.err = NoError
                /\ request.ret \in store
                /\ request.ret["_id"] = IdentityOf(request.id)

\* a get by a malformed string of the right length, on a store with documents
C9_Witness ==
    /\ request.op = "get"
    /\ request.id.kind = "str"
    /\ Len(request.id.v) = 2
    /\ ~WellFormedId(request.id)
    /\ request.err.type = "ValueError"
    /\ Cardinality(store) = 2

\* what a successful create(data) leaves, as the claim describes it
CreatedOne ==
    /\ request.err = NoError
    /\ Cardinality(store) = Cardinality(request.before) + 1
    /\ request.before \subseteq store
    /\ request.ret \in store \ request.before
    /\ DOMAIN request.ret = { "_id" } \cup NamedFields(request.data)
    /\ \A f \in NamedFields(request.data) : request.ret[f] = request.data[f]
    /\ request.ret["_id"].kind = "oid"
    /\ IF "_id" \in DOMAIN request.data
       THEN request.ret["_id"] = IdentityOf(request.data["_id"])
       ELSE ~Stored(request.before, request.ret["_id"])
    /\ crud_get(store, request.ret["_id"]).ret = request.ret

\* C10 as stated: create(data) with non-empty data adds exactly one document
\* and returns it as stored, with every field of data plus an identity
\* field, and a get of that identity returns the same document.
C10_CreateAlwaysAddsOne ==
    ( /\ request.op = "create"
      /\ DOMAIN request.data # {} ) => CreatedOne

\* the payloads create can store: no identity, or a well-formed identity
\* that no stored document has
Creatable(data, coll) ==
    \/ "_id" \notin DOMAIN data
    \/ WellFormedId(data["_id"]) /\ ~Stored(coll, data["_id"])

\* C10, amended: create(data) with non-empty data that carries no identity,
\* or a well-formed identity no stored document has, adds exactly one
\* document and returns it as stored, with every field of data plus the
\* identity field (the ObjectId of a given id, a fresh one otherwise), and a
\* get of that identity returns the same document.  With a malformed
\* identity string it fails with ValueError, with an identity already stored
\* with the store's duplicate-key error, and the collection is unchanged.
C10_CreateAddsOneWhenIdentityUsable ==
    ( /\ request.op = "create"
      /\ DOMAIN request.data # {} ) =>
        IF Creatable(request.data, request.before)
        THEN CreatedOne
        ELSE /\ store = request.before
             /\ request.ret = None
             /\ request.err.type =
                  IF WellFormedId(request.data["_id"])
                  THEN "DuplicateKeyError" ELSE "ValueError"

\* a create whose payload carries its identity as a string, into a
\* collection that holds a document already
C10_Witness ==
    /\ request.op = "create"
    /\ request.err = NoError
    /\ "_id" \in DOMAIN request.data
    /\ request.data["_id"].kind = "str"
    /\ NamedFields(request.data) # {}
    /\ request.before # {}

\* the documents of coll other than the one with the identity of id
Except(coll, id) == { d \in coll : d["_id"] # IdentityOf(id) }

\* C11: delete(id) for a well-formed id returns true iff a document with
\* that identity was stored, removes exactly that document, and returns
\* false without an error and without a change when none was; once it has
\* returned, exists(id) is false and a second delete(id) returns false and
\* changes nothing.  (A malformed id string is rejected with ValueError, the
\* store unchanged; exists never raises and modifies nothing.)
C11_DeleteIdempotentStyle ==
    /\ request.op = "delete" =>
         IF WellFormedId(request.id)
         THEN /\ request.err = NoError
              /\ request.ret = Stored(request.before, request.id)
              /\ store = Except(request.before, request.id)
              /\ crud_exists(store, request.id).ret = FALSE
              /\ crud_delete(store, request.id).ret = FALSE
              /\ crud_delete(store, request.id).coll = store
         ELSE /\ request.err.type = "ValueError"
              /\ store = request.before
    /\ request.op = "exists" =>
         /\ request.err = NoError
         /\ store = request.before
         /\ request.ret = ( /\ WellFormedId(request.id)
                            /\ Stored(store, request.id) )

\* a delete by id string that removed one of two stored documents
C11_Witness ==
    /\ request.op = "delete"
    /\ request.id.kind = "str"
    /\ request.err = NoError
    /\ request.ret = TRUE
    /\ Cardinality(request.before) = 2
    /\ Cardinality(store) = 1

\* the identities that the well-formed members of ids denote
WellFormedMembers(ids) ==
    { IdentityOf(ids[i]) : i \in { j \in DOMAIN ids : WellFormedId(ids[j]) } }

\* what bulk_delete(ids) removes, and the count it reports as deleted
BulkDeleteRemoves ==
    /\ request.err = NoError
    /\ store = { d \in request.before :
                   d["_id"] \notin WellFormedMembers(request.ids) }
    /\ request.ret.deleted_count = Cardinality(request.before \ store)

\* C12 as stated: bulk_delete(ids) never fails because of malformed ids; for
\* every list it removes exactly the stored documents whose identity is a
\* well-formed member of ids, leaves the others unchanged, and returns the
\* requested count, the length of ids, and the number of documents deleted.
C12_BulkDeleteReturnsBothCounts ==
    request.op = "bulk_delete" =>
        /\ BulkDeleteRemoves
        /\ "requested_count" \in DOMAIN request.ret
        /\ request.ret.requested_count = Len(request.ids)

\* C12, as the code has it: the removal and the deleted count are as stated
\* for every list; the requested count is returned only when ids has a
\* well-formed member, and is the length of ids then.
C12_BulkDeleteRemovesWellFormed ==
    request.op = "bulk_delete" =>
        /\ BulkDeleteRemoves
        /\ IF WellFormedMembers(request.ids) = {}
           THEN "requested_count" \notin DOMAIN request.ret
           ELSE request.ret.requested_count = Len(request.ids)

\* a bulk_delete of a malformed id and the id of one of two stored documents
C12_Witness ==
    /\ request.op = "bulk_delete"
    /\ Len(request.ids) = 2
    /\ \E i \in DOMAIN request.ids : ~WellFormedId(request.ids[i])
    /\ request.ret.deleted_count = 1
    /\ Cardinality(store) = 1

\* the documents the built queries are evaluated against: every choice of
\* an age, a name and a user_id, each possibly absent
FilterDocs ==
    LET ages  == { IntVal(n) : n \in 1..3 }
        names == { Str(<< "A", "l" >>), Str(<< "b" >>) }
        users == { Oid(<< "000000000000", "000000000000" >>),
                   Oid(<< "aaaaaaaaaaaa", "aaaaaaaaaaaa" >>) }
        of(f, vs) == { << >> } \cup { f :> v : v \in vs }
    IN  { a @@ n @@ u : a \in of("age", ages), n \in of("name", names),
                        u \in of("user_id", users) }

\* the value a filter entry compares with: an id string stands for the id
Meant(value, field) ==
    IF field \in { "_id", "user_id" } /\ value.kind = "str" /\ WellFormedId(value)
    THEN IdentityOf(value)
    ELSE value

AtMost(a, b) == a = b \/ ValueLess(a, b)

\* what one `field` / `field__operator` entry asks of a document
EntrySatisfied(doc, entry) ==
    LET field   == entry.key[1]
        op      == IF Len(entry.key) = 1 THEN "eq" ELSE entry.key[2]
        present == field \in DOMAIN doc
        among   == present /\ \E i \in DOMAIN entry.value.v :
                                Meant(entry.value.v[i], field) = doc[field]
    IN  IF op = "eq" THEN present /\ doc[field] = Meant(entry.value, field)
        ELSE IF op = "ne"
        THEN ~(present /\ doc[field] = Meant(entry.value, field))
        ELSE IF op = "gt"
        THEN present /\ ValueLess(Meant(entry.value, field), doc[field])
        ELSE IF op = "gte"
        THEN present /\ AtMost(Meant(entry.value, field), doc[field])
        ELSE IF op = "lt"
        THEN present /\ ValueLess(doc[field], Meant(entry.value, field))
        ELSE IF op = "lte"
        THEN present /\ AtMost(doc[field], Meant(entry.value, field))
        ELSE IF op = "in" THEN among
        ELSE IF op = "nin" THEN ~among
        ELSE IF op = "regex"
        THEN /\ present
             /\ doc[field].kind = "str"
             /\ Contains(Fold(doc[field].v), Fold(entry.value.v))
        ELSE IF op = "range"
        THEN /\ present
             /\ AtMost(Meant(entry.value.v[1], field), doc[field])
             /\ AtMost(doc[field], Meant(entry.value.v[2], field))
        ELSE present = entry.value.v

\* a range entry carries its two bounds
EntryWellFormed(entry) ==
    (Len(entry.key) = 2 /\ entry.key[2] = "range") => Len(entry.value.v) = 2

\* C19 as stated: the query build_filter(spec) returns is the conjunction of
\* all entries of spec: a document satisfies it iff it satisfies every
\* entry, also when several entries name the same field.
C19_FilterIsConjunctionOfAllEntries ==
    ( /\ request.op = "build_filter"
      /\ \A i \in DOMAIN request.filters :
             EntryWellFormed(request.filters[i]) ) =>
        \A doc \in FilterDocs :
            Matches(doc, request.ret) <=>
                \A i \in DOMAIN request.filters :
                    EntrySatisfied(doc, request.filters[i])

\* the entries that are in force: the last well-formed entry of each field
InForce(filters) ==
    { i \in DOMAIN filters :
        /\ EntryWellFormed(filters[i])
        /\ \A j \in DOMAIN filters :
               (j > i /\ filters[j].key[1] = filters[i].key[1])
                   => ~EntryWellFormed(filters[j]) }

\* C19, as the code has it: the built query is the conjunction of the last
\* entry of each field; an earlier entry on the same field is dropped, and
\* so is a range entry that does not carry two bounds.
C19_FilterIsConjunctionOfLastEntries ==
    request.op = "build_filter" =>
        \A doc \in FilterDocs :
            Matches(doc, request.ret) <=>
                \A i \in InForce(request.filters) :
                    EntrySatisfied(doc, request.filters[i])

\* a filter with a lower and an upper bound on one field, of which the
\* built query keeps the upper bound only
C19_Witness ==
    /\ request.op = "build_filter"
    /\ Len(request.filters) = 2
    /\ request.filters[1].key = << "age", "gte" >>
    /\ request.filters[2].key = << "age", "lte" >>
    /\ DOMAIN request.ret = { "age" }
    /\ DOMAIN request.ret["age"].ops = { "$lte" }

\* what a search term asks of a document: one of the search fields holds a
\* string that contains the term, letter case apart
SearchSatisfied(doc, search, fields) ==
    search = None \/
    \E i \in DOMAIN fields :
        /\ fields[i] \in DOMAIN doc
        /\ doc[fields[i]].kind = "str"
        /\ Contains(Fold(doc[fields[i]].v), Fold(search.v))

\* the documents that match the filters and the search of the list call
Listed ==
    { d \in request.before :
        /\ \A i \in DOMAIN request.filters :
               EntrySatisfied(d, request.filters[i])
        /\ SearchSatisfied(d, request.search, request.config.search_fields) }

\* ceil(a / b) for a >= 0 and b # 0: the least integer that is at least a/b
CeilDiv(a, b) ==
    LET reaches(q) == IF b > 0 THEN q * b >= a ELSE q * b <= a
    IN  CHOOSE q \in (0 - a)..a : reaches(q) /\ ~reaches(q - 1)

\* total, has_next and has_prev of the last result, as C13 states them
ListCountsAndFlags ==
    /\ request.ret.total = Cardinality(Listed)
    /\ request.ret.has_next = (request.ret.page < request.ret.pages)
    /\ request.ret.has_prev = (request.ret.page > 1)

\* C13 as stated: in the result of list(page, per_page, filters, search),
\* total is the number of all documents matching the filter query and the
\* search query, pages = ceil(total / per_page), has_next = (page < pages)
\* and has_prev = (page > 1).  (per_page = 0, for which the quotient is
\* not defined, is left out.)
C13_ListPagesIsCeiling ==
    ( request.op = "list" /\ request.per_page # 0 ) =>
        /\ ListCountsAndFlags
        /\ request.ret.pages = CeilDiv(request.ret.total, request.per_page)

\* C13, amended: total, has_next and has_prev are as stated for every call;
\* pages = ceil(total / per_page) when per_page >= 1, and pages = 1 when
\* per_page <= 0.
C13_ListPagesIsCeilingForPositivePerPage ==
    request.op = "list" =>
        /\ ListCountsAndFlags
        /\ request.ret.pages =
             IF request.per_page >= 1
             THEN CeilDiv(request.ret.total, request.per_page)
             ELSE 1

\* the first page of a list that filters and searches for a term with a
\* special character: two of three documents match, one per page
C13_Witness ==
    /\ request.op = "list"
    /\ request.filters # << >>
    /\ request.search = Str(<< "." >>)
    /\ request.per_page = 1
    /\ request.ret.page = 1
    /\ request.ret.total = 2
    /\ request.ret.pages = 2
    /\ request.ret.has_next
    /\ Cardinality(request.before) = 3

\* the items of the first n results of a walk, in the order they came
RECURSIVE ItemsOf(_, _)
ItemsOf(walked, n) ==
    IF n = 0 THEN << >> ELSE ItemsOf(walked, n - 1) \o walked[n].items

\* a walk through the pages from page 1 on, with the per_page it is made
\* with, partitions the matching documents: page p of pages holds
\* min(per_page, total - (p-1)*per_page) items, pages 1..pages together hold
\* every matching document exactly once, and a page beyond the last holds
\* no items, has_next false and the same total
WalkPartitions ==
    LET walked == request.walked
        total  == Cardinality(Listed)
        pages  == CeilDiv(total, request.per_page)
    IN  /\ \A p \in DOMAIN walked :
               /\ walked[p].page = p
               /\ walked[p].total = total
               /\ walked[p].pages = pages
               /\ IF p <= pages
                  THEN Len(walked[p].items) =
                         Min(request.per_page,
                             total - (p - 1) * request.per_page)
                  ELSE /\ walked[p].items = << >>
                       /\ ~walked[p].has_next
        /\ Len(walked) >= pages =>
               LET items == ItemsOf(walked, pages)
               IN  /\ Len(items) = total
                   /\ { items[i] : i \in DOMAIN items } = Listed

\* C14 as stated: offset pages partition the result set, on an unchanged
\* collection, for every per_page >= 1 and a fixed query and sort.
C14_OffsetPagesPartition ==
    ( /\ request.op = "list"
      /\ request.first = 1
      /\ request.per_page >= 1 ) => WalkPartitions

\* C14, as the code has it: the pages partition the result set when
\* per_page is at most the max_per_page of the collection's config.
C14_OffsetPagesPartitionUpToMaxPerPage ==
    ( /\ request.op = "list"
      /\ request.first = 1
      /\ request.per_page >= 1
      /\ request.per_page <= request.config.max_per_page ) => WalkPartitions

\* a walk with per_page above max_per_page: the only page holds two of the
\* three matching documents and the page beyond it holds the third
C14_Witness ==
    /\ request.op = "list"
    /\ request.first = 1
    /\ request.per_page = 3
    /\ request.config.max_per_page = 2
    /\ Len(request.walked) = 2
    /\ request.walked[1].total = 3
    /\ request.walked[1].pages = 1
    /\ Len(request.walked[1].items) = 2
    /\ Len(request.walked[2].items) = 1
    /\ request.walked[2].page > request.walked[2].pages

\* the documents matching the query of the cursor walk, in sort order
CursorMatching ==
    Sorted({ d \in request.before : Matches(d, request.query) },
           << SortKey(request.sort_field, request.sort_direction) >>)

\* the pages walked so far are the matching documents from the first on, in
\* sort order, none twice and none skipped; each page holds at most
\* per_page items; has_next says whether a matching document is left
CursorWalkInOrder ==
    LET items == ItemsOf(request.walked, Len(request.walked))
    IN  /\ Len(items) <= Len(CursorMatching)
        /\ items = SubSeq(CursorMatching, 1, Len(items))
        /\ \A p \in DOMAIN request.walked :
               Len(request.walked[p].items) <= request.per_page
        /\ request.ret.has_next = (Len(items) < Len(CursorMatching))

\* C15 as stated: cursor pages never overlap and never skip.  On an
\* unchanged collection whose sort-field values are pairwise distinct, the
\* walk that starts with cursor=None and feeds each next_cursor into the
\* next call returns every matching document exactly once, in sort order,
\* at most per_page items a page, has_next true exactly when a further
\* matching document exists.
C15_CursorPagesNeverOverlapNorSkip ==
    ( request.op = "paginate_cursor" /\ request.per_page >= 1 ) =>
        CursorWalkInOrder

\* no next_cursor of the walk is a value Python takes for false, and the
\* query has no condition of its own on the sort field
CursorWalkUsable ==
    /\ request.sort_field \notin DOMAIN request.query
    /\ \A d \in request.before :
           ~( /\ d[request.sort_field].kind = "int"
              /\ d[request.sort_field].v = 0 )

\* C15, as the code has it: the walk is in order, without overlap or skip,
\* when the query does not constrain the sort field and no document has the
\* sort-field value 0.
C15_CursorPagesInOrderWhenCursorUsable ==
    ( /\ request.op = "paginate_cursor"
      /\ request.per_page >= 1
      /\ CursorWalkUsable ) => CursorWalkInOrder

\* a walk sorted by value, one item a page, whose first page ends with the
\* value 0: the second call returns the first page again
C15_Witness ==
    /\ request.op = "paginate_cursor"
    /\ request.sort_field = "value"
    /\ request.per_page = 1
    /\ request.query = << >>
    /\ Len(request.walked) = 2
    /\ request.walked[1].next_cursor = IntVal(0)
    /\ request.walked[2].items = request.walked[1].items

(***************************************************************************)
(* resolve_batch: the number of queries                                    *)
(***************************************************************************)
\* C16: resolve_batch(documents, relationships) issues at most
\* len(relationships) store queries in total, whatever the number of input
\* documents and whatever the number of reference values they hold.
C16_AtMostOneQueryPerRelationship ==
    request.op = "resolve_batch" =>
        Len(request.queries) <= Len(request.relationships)

\* two documents holding five reference values between them are resolved
\* over two relationships with two queries
C16_Witness ==
    /\ request.op = "resolve_batch"
    /\ Len(request.documents) = 2
    /\ \A i \in 1..2 : /\ "user_id" \in DOMAIN request.documents[i]
                       /\ "tag_ids" \in DOMAIN request.documents[i]
                       /\ request.documents[i]["tag_ids"].v # << >>
    /\ Len(request.relationships) = 2
    /\ Len(request.queries) = 2

\* a document holds a reference for the relationship: a value, or a list
\* that is not empty
HoldsReference(doc, rel) ==
    /\ rel.source_field \in DOMAIN doc
    /\ doc[rel.source_field].kind = "list" => doc[rel.source_field].v # << >>

\* the positions of the relationships some document holds a reference for
Referenced(documents, relationships) ==
    { k \in DOMAIN relationships :
        \E i \in DOMAIN documents :
            HoldsReference(documents[i], relationships[k]) }

\* C17 as stated: for every non-empty list of input documents,
\* resolve_batch issues exactly one store query per relationship of the
\* list, the same count for 1 document as for any larger number.
C17_ExactlyOneQueryPerRelationship ==
    (request.op = "resolve_batch" /\ request.documents # << >>
         /\ request.depth >= 1) =>
        Len(request.queries) = Len(request.relationships)

\* C17, amended: for every non-empty list of input documents and a depth of
\* at least 1, resolve_batch issues exactly one store query, on the
\* relationship's target collection, for each relationship of the list for
\* which some input document holds a reference value (a value, or a list
\* that is not empty), and no query for the other relationships; with a
\* depth of 0 or less it issues none.
C17_OneQueryPerReferencedRelationship ==
    (request.op = "resolve_batch" /\ request.documents # << >>) =>
        LET at == Referenced(request.documents, request.relationships) IN
        IF request.depth >= 1
        THEN /\ Len(request.queries) = Cardinality(at)
             /\ \E pos \in [ 1..Len(request.queries) -> at ] :
                    /\ \A i, j \in DOMAIN pos : i < j => pos[i] < pos[j]
                    /\ \A i \in DOMAIN pos :
                           request.queries[i].collection =
                               request.relationships[pos[i]].target_collection
        ELSE request.queries = << >>

\* two relationships, one of them on a field no document of the batch has:
\* one query
C17_Witness ==
    /\ request.op = "resolve_batch"
    /\ request.depth = 1
    /\ Len(request.documents) = 2
    /\ Len(request.relationships) = 2
    /\ request.relationships[1].source_field = "coupon_id"
    /\ request.relationships[2].source_field = "tag_ids"
    /\ Len(request.queries) = 1
    /\ request.queries[1].collection = <<"tags">>

(***************************************************************************)
(* Relationship detection in one sampled document                          *)
(***************************************************************************)
Letters ==
    { "a", "b", "c", "d", "e", "f", "g", "h", "i", "j", "k", "l", "m", "n",
      "o", "p", "q", "r", "s", "t", "u", "v", "w", "x", "y", "z" }

Consonants == Letters \ { "a", "e", "i", "o", "u" }

\* the plural of the rule: consonant + y -> ies; s, ss, x, z, ch, sh -> es;
\* otherwise s
Plural(word) ==
    LET n == Len(word) IN
    IF n >= 2 /\ word[n] = "y" /\ word[n - 1] \in Consonants
    THEN SubSeq(word, 1, n - 1) \o << "i", "e", "s" >>
    ELSE IF \/ n >= 1 /\ word[n] \in { "s", "x", "z" }
            \/ n >= 2 /\ << word[n - 1], word[n] >>
                             \in { << "s", "s" >>, << "c", "h" >>,
                                   << "s", "h" >> }
    THEN word \o << "e", "s" >>
    ELSE word \o << "s" >>

\* the field name without its _id or _ids
StemOf(field) ==
    IF EndsWith(field, Suffix_ids) THEN SubSeq(field, 1, Len(field) - 4)
    ELSE IF EndsWith(field, Suffix_id) THEN SubSeq(field, 1, Len(field) - 3)
    ELSE field

\* the field of the document of the request yields exactly this relationship
Yields(field, type, target) ==
    SelectSeq(request.ret, LAMBDA r : r.source_field = field)
        = << Relationship(Orders, field, target, "_id", type) >>

YieldsNothing(field) ==
    \A k \in DOMAIN request.ret : request.ret[k].source_field # field

\* the collections the name of a field, or its bare id, lets one guess
Guesses(field, value) ==
    { Plural(StemOf(field)) }
    \cup (IF value.kind = "oid" /\ ~EndsWith(field, Suffix_id)
          THEN { Plural(field) } ELSE {})

\* the clauses on X_id and X_ids, on the pluralization and on the guesses
\* without an existing target
GuessedByName(field, value, cache) ==
    /\ (EndsWith(field, Suffix_id) /\ Plural(StemOf(field)) \in cache)
           => Yields(field, "one_to_one", Plural(StemOf(field)))
    /\ (EndsWith(field, Suffix_ids) /\ Plural(StemOf(field)) \in cache)
           => Yields(field, "one_to_many", Plural(StemOf(field)))
    /\ (value.kind # "dbref" /\ Guesses(field, value) \cap cache = {})
           => YieldsNothing(field)

\* C18 as stated: for every non-identity field of a sampled document, X_id
\* with an existing pluralized stem yields ONE_TO_ONE to it, X_ids with an
\* existing pluralized stem yields ONE_TO_MANY, a field not ending in _id
\* that holds a bare id and whose pluralized name exists yields ONE_TO_ONE;
\* the plural is consonant+y -> ies, s/ss/x/z/ch/sh -> es, otherwise s; a
\* guess without an existing target yields no relationship and no error.
C18_RelationshipGuessedByName ==
    /\ request.op = "pluralize" => request.ret = Plural(request.word)
    /\ request.op = "detect_in_document" =>
         /\ request.err = NoError
         /\ \A i \in DOMAIN request.document :
              LET field == request.document[i].field
                  value == request.document[i].value
              IN  field # Suffix_id =>
                    /\ GuessedByName(field, value, request.cache)
                    /\ (/\ ~EndsWith(field, Suffix_id)
                        /\ value.kind = "oid"
                        /\ Plural(field) \in request.cache)
                           => Yields(field, "one_to_one", Plural(field))

\* C18, amended: as stated, but the bare-id clause holds for the fields the
\* naming convention has not already settled: a field not ending in _id,
\* and not an X_ids whose pluralized stem is an existing collection, that
\* holds a bare id and whose pluralized name exists yields ONE_TO_ONE.
C18_BareIdGuessedUnlessNamed ==
    /\ request.op = "pluralize" => request.ret = Plural(request.word)
    /\ request.op = "detect_in_document" =>
         /\ request.err = NoError
         /\ \A i \in DOMAIN request.document :
              LET field == request.document[i].field
                  value == request.document[i].value
              IN  field # Suffix_id =>
                    /\ GuessedByName(field, value, request.cache)
                    /\ (/\ ~EndsWith(field, Suffix_id)
                        /\ ~(/\ EndsWith(field, Suffix_ids)
                             /\ Plural(StemOf(field)) \in request.cache)
                        /\ value.kind = "oid"
                        /\ Plural(field) \in request.cache)
                           => Yields(field, "one_to_one", Plural(field))

\* user_ids holds a bare id, and both users and user_idses exist: the field
\* yields ONE_TO_MANY to users; the user_id next to it yields ONE_TO_ONE
C18_Witness ==
    /\ request.op = "detect_in_document"
    /\ Len(request.document) = 3
    /\ request.document[2].field = << "u", "s", "e", "r" >> \o Suffix_ids
    /\ request.document[2].value.kind = "oid"
    /\ request.cache = { << "u", "s", "e", "r", "s" >>,
                         << "u", "s", "e", "r" >> \o Suffix_ids
                             \o << "e", "s" >> }
    /\ Len(request.ret) = 2
    /\ request.ret[1].type = "one_to_many"
    /\ request.ret[2].type = "one_to_one"
    /\ \A k \in 1..2 : request.ret[k].target_collection
                           = << "u", "s", "e", "r", "s" >>

\* C20 as stated: a field whose sampled value is a DBRef always yields a
\* ONE_TO_ONE relationship whose target_collection is the collection name
\* the reference carries, for every field name (names ending in _id or
\* _ids included) and whether or not that collection is in the cache.
C20_DBRefYieldsItsOwnCollection ==
    request.op = "detect_in_document" =>
        \A i \in DOMAIN request.document :
            LET field == request.document[i].field
                value == request.document[i].value
            IN  (field # Suffix_id /\ value.kind = "dbref")
                    => Yields(field, "one_to_one", value.v.collection)

\* what holds: the DBRef decides unless the field is an X_id or X_ids whose
\* pluralized stem is an existing collection; then the name decides the
\* target and the type
C20_DBRefYieldsItsOwnCollectionUnlessNamed ==
    request.op = "detect_in_document" =>
        \A i \in DOMAIN request.document :
            LET field == request.document[i].field
                value == request.document[i].value
                named == /\ EndsWith(field, Suffix_id)
                            \/ EndsWith(field, Suffix_ids)
                         /\ Plural(StemOf(field)) \in request.cache
            IN  (field # Suffix_id /\ value.kind = "dbref") =>
                    IF named
                    THEN Yields(field,
                                IF EndsWith(field, Suffix_ids)
                                THEN "one_to_many" ELSE "one_to_one",
                                Plural(StemOf(field)))
                    ELSE Yields(field, "one_to_one", value.v.collection)

\* class_ids holds a DBRef to accounts and classes exists: the field yields
\* ONE_TO_MANY to classes
C20_Witness ==
    /\ request.op = "detect_in_document"
    /\ Len(request.document) = 2
    /\ request.document[2].field
           = << "c", "l", "a", "s", "s" >> \o Suffix_ids
    /\ request.document[2].value.kind = "dbref"
    /\ request.document[2].value.v.collection = Accounts
    /\ request.cache = { << "c", "l", "a", "s", "s", "e", "s" >> }
    /\ Len(request.ret) = 1
    /\ request.ret[1].type = "one_to_many"
    /\ request.ret[1].target_collection
           = << "c", "l", "a", "s", "s", "e", "s" >>

(***************************************************************************)
(* paginate_cursor: the items and the caller's query                       *)
(***************************************************************************)
\* every item of every page walked so far satisfies the caller's query
CursorItemsMatch ==
    \A p \in DOMAIN request.walked :
        \A k \in DOMAIN request.walked[p].items :
            Matches(request.walked[p].items[k], request.query)

\* C29 as stated: every item returned by paginate_cursor satisfies the
\* caller's query, for every query, cursor, sort_field and sort_direction,
\* a query with a condition on sort_field itself included.
C29_CursorItemsSatisfyQuery ==
    request.op = "paginate_cursor" => CursorItemsMatch

\* what holds: the items satisfy the query when the query has no condition
\* on the sort field
C29_CursorItemsSatisfyQueryOffSortField ==
    ( /\ request.op = "paginate_cursor"
      /\ request.sort_field \notin DOMAIN request.query ) => CursorItemsMatch

\* the query asks for value <= 2 and the walk is sorted by value: a page
\* fetched with a cursor holds the document with value 3
C29_Witness ==
    /\ request.op = "paginate_cursor"
    /\ request.sort_field = "value"
    /\ "value" \in DOMAIN request.query
    /\ Len(request.walked) >= 2
    /\ \E k \in DOMAIN request.ret.items :
           request.ret.items[k]["value"].v = 3

(***************************************************************************)
(* update with nothing to change                                           *)
(***************************************************************************)
\* the call is an update whose data names no field other than _id
UpdateWithoutFields ==
    /\ request.op = "update"
    /\ NamedFields(request.data) = {}

\* C27 as stated: update never applies an empty change set.  When data has
\* no field other than the identity field, update(id, data, partial) fails
\* without modifying the store, so the stored document with identity id
\* keeps all its fields, for partial = true and partial = false.
C27_UpdateNeverAppliesEmptyChangeSet ==
    UpdateWithoutFields =>
        /\ request.err # NoError
        /\ store = request.before

\* what holds: with no data at all the call fails and the store is
\* unchanged; with data that holds only an _id, a partial update leaves the
\* store unchanged, and a full update leaves the document with the identity
\* of id, if one is stored, with its _id and no other field
C27_FullUpdateWithOnlyIdEmptiesDocument ==
    UpdateWithoutFields =>
        IF request.data = << >> \/ request.partial
           \/ ~WellFormedId(request.id) \/ ~Stored(request.before, request.id)
        THEN /\ store = request.before
             /\ request.data = << >> => request.err # NoError
        ELSE /\ request.err = NoError
             /\ store = Except(request.before, request.id)
                          \cup { "_id" :> IdentityOf(request.id) }

\* a full update with data {_id: ...} on a stored document that had a name:
\* the call succeeds and the document has lost it
C27_Witness ==
    /\ UpdateWithoutFields
    /\ request.data # << >>
    /\ ~request.partial
    /\ request.err = NoError
    /\ \E d \in request.before : /\ d["_id"] = IdentityOf(request.id)
                                 /\ "name" \in DOMAIN d
    /\ \E d \in store : /\ d["_id"] = IdentityOf(request.id)
                        /\ DOMAIN d = { "_id" }

(***************************************************************************)
(* refresh_collection and the registration of the name                     *)
(***************************************************************************)
\* coroutine c runs, or has just ended, a refresh_collection of a name that
\* was registered when the call was made
Refreshing(c) ==
    /\ task[c].op = "refresh_collection"
    /\ task[c].err # "KeyError"

\* C28 as stated: refresh_collection(name) on a registered name keeps the
\* name registered, in every state reachable during the call and after it
\* ends, also when re-introspection or re-registration fails.
C28_RefreshKeepsNameRegistered ==
    \A c \in Coroutines :
        Refreshing(c) => registry_contains(collections, task[c].name)

\* what holds: the step with which a refresh_collection ends without an
\* error leaves the name registered
C28_RefreshThatSucceedsRegisters ==
    [][ \A c \in Coroutines :
          ( /\ task'[c] # task[c]
            /\ task'[c].op = "refresh_collection"
            /\ task'[c].pc = "done"
            /\ task'[c].err = "none" )
              => registry_contains(collections', task'[c].name) ]_vars

\* a refresh_collection whose re-introspection failed has ended, and the
\* name is no longer registered
C28_Witness ==
    \E c \in Coroutines :
        /\ task[c].op = "refresh_collection"
        /\ task[c].pc = "done"
        /\ task[c].err = "StoreError"
        /\ ~registry_contains(collections, task[c].name)
        /\ \A d \in Coroutines \ {c} : task[d].op # "unregister_collection"

(***************************************************************************)
(* detect: the list of relationships and the cache of names                *)
(***************************************************************************)
\* the relationships the documents of the sample yield, document by
\* document, restricted to one field
YieldedFor(field) ==
    LET RECURSIVE all(_)
        all(sample) ==
            IF sample = << >> THEN << >>
            ELSE detect_in_document(request.cache, Orders, Head(sample))
                 \o all(Tail(sample))
    IN  SelectSeq(all(sample_of(store)), LAMBDA r : r.source_field = field)

\* the relationships of the returned list after the manual ones
Detected == SubSeq(request.ret, Len(request.config) + 1, Len(request.ret))

\* the detected part holds one relationship for each field some sampled
\* document yields one for, and it is the first yielded
FirstYieldedKept ==
    /\ \A i, j \in DOMAIN Detected :
           Detected[i].source_field = Detected[j].source_field => i = j
    /\ \A i \in DOMAIN Detected :
           Detected[i] = YieldedFor(Detected[i].source_field)[1]
    /\ \A field \in { user_id, author } :
           YieldedFor(field) # << >> =>
               \E i \in DOMAIN Detected : Detected[i].source_field = field

\* C21 as stated: the list returned by detect(collection_name, config) is
\* deduplicated by source_field, for every sample and every config, the
\* configs with manual relationships included, and the relationship kept
\* for an auto-detected field is the one of the first sampled document that
\* yields one.
C21_DetectDeduplicatesBySourceField ==
    request.op = "detect" =>
        /\ \A i, j \in DOMAIN request.ret :
               request.ret[i].source_field = request.ret[j].source_field
                   => i = j
        /\ FirstYieldedKept

\* what holds: the list is the manual relationships of the config followed
\* by the detected ones, which are deduplicated among themselves, first
\* yielded first kept
C21_DetectedPartDeduplicated ==
    request.op = "detect" =>
        /\ SubSeq(request.ret, 1, Len(request.config)) = request.config
        /\ FirstYieldedKept

\* the config has a manual relationship on user_id, the sample yields one
\* for user_id too: the list has both
C21_Witness ==
    /\ request.op = "detect"
    /\ Len(request.config) = 1
    /\ Len(request.ret) = 2
    /\ request.ret[1].source_field = user_id
    /\ request.ret[2].source_field = user_id
    /\ request.ret[1].target_collection = Accounts
    /\ request.ret[2].target_collection = Users

\* C22 as stated: the cache of collection names is populated once, lazily.
\* Over any sequence of detect calls on one detector the names are listed
\* on the first call and never again, whatever the database contains.
C22_NamesListedOnce ==
    /\ store.list_calls <= 1
    /\ request.op = "detect" => store.list_calls >= 1

\* C22, amended: a detect call lists the names exactly when the cache is
\* empty at the call, and the cache becomes the names listed; so the names
\* are listed on the first call, again on every call made while all
\* listings so far returned no name, and never after a listing that
\* returned one.
C22_NamesListedWhileCacheEmpty ==
    [][ /\ (request.op = "none" /\ request'.op = "detect") =>
              /\ store'.list_calls =
                     store.list_calls + (IF collection_cache = {} THEN 1 ELSE 0)
              /\ collection_cache' =
                     IF collection_cache = {} THEN db_names
                     ELSE collection_cache
        /\ ~(request.op = "none" /\ request'.op = "detect") =>
              /\ store'.list_calls = store.list_calls
              /\ collection_cache' = collection_cache ]_vars

\* the database had no collection at the first detect call and has one at
\* the second: the names have been listed twice
C22_Witness ==
    /\ request.op = "detect"
    /\ store.list_calls = 2
    /\ collection_cache # {}

(***************************************************************************)
(* resolve and resolve_batch on one document                               *)
(***************************************************************************)
\* the _relationships map of a returned document; none with depth <= 0
RelsOf(doc) ==
    IF "_relationships" \in DOMAIN doc THEN doc["_relationships"].v
    ELSE << >>

\* what a slot of the map holds: nothing, a list, a document or a value
Shape(value) ==
    IF "none" \in DOMAIN value THEN "none"
    ELSE IF "kind" \in DOMAIN value THEN value.kind
    ELSE "doc"

SameValue(a, b) == Shape(a) = Shape(b) /\ a = b

\* C30 as stated: batch and single resolution agree.  For every document d
\* and relationship list rels, of any types and with present or missing
\* targets, resolve_batch([d], rels) returns one document whose
\* _relationships map has the same keys and the same values as that of
\* resolve(d, rels), and neither call modifies d.
C30_BatchAndSingleAgree ==
    request.op = "resolve_both_ways" =>
        /\ Len(request.batch) = 1
        /\ DOMAIN RelsOf(request.batch[1]) = DOMAIN RelsOf(request.single)
        /\ \A f \in DOMAIN RelsOf(request.single) :
               SameValue(RelsOf(request.batch[1])[f],
                         RelsOf(request.single)[f])
        /\ \A f \in DOMAIN request.document :
               /\ request.single[f] = request.document[f]
               /\ request.batch[1][f] = request.document[f]

\* the relationship is a reference resolve follows, and the document holds
\* a reference for it that has a target
Resolvable(rel) ==
    /\ rel.type \in { "one_to_one", "one_to_many" }
    /\ HoldsReference(request.document, rel)
    /\ request.document[rel.source_field].kind # "list" =>
           \E t \in collection_of(request.before, rel.target_collection) :
               t[rel.target_field] = request.document[rel.source_field]

\* what holds: the two calls leave d as it was, and their maps agree, lists
\* up to the order of their members, when every relationship of the list
\* whose source field d has is resolvable
C30_BatchAndSingleAgreeOnResolvable ==
    request.op = "resolve_both_ways" =>
        /\ Len(request.batch) = 1
        /\ \A f \in DOMAIN request.document :
               /\ request.single[f] = request.document[f]
               /\ request.batch[1][f] = request.document[f]
        /\ (\A k \in DOMAIN request.relationships :
                request.relationships[k].source_field
                    \in DOMAIN request.document
                => Resolvable(request.relationships[k]))
           => LET s == RelsOf(request.single)
                  b == RelsOf(request.batch[1])
              IN  /\ DOMAIN s = DOMAIN b
                  /\ \A f \in DOMAIN s :
                         /\ Shape(s[f]) = Shape(b[f])
                         /\ IF Shape(s[f]) = "list"
                            THEN { s[f].v[i] : i \in DOMAIN s[f].v }
                                 = { b[f].v[i] : i \in DOMAIN b[f].v }
                            ELSE s[f] = b[f]

\* the user the document refers to is not stored: resolve stores None under
\* user_id, resolve_batch stores nothing
C30_Witness ==
    /\ request.op = "resolve_both_ways"
    /\ request.depth = 1
    /\ Len(request.relationships) = 1
    /\ request.relationships[1].type = "one_to_one"
    /\ DOMAIN RelsOf(request.single) = { "user_id" }
    /\ RelsOf(request.single)["user_id"] = None
    /\ DOMAIN RelsOf(request.batch[1]) = {}

(***************************************************************************)
(* build_filter: who decides the operators of the query                    *)
(***************************************************************************)
\* the operators the store reads in the condition of a field
OperatorsOf(cond) == IF cond.kind = "ops" THEN DOMAIN cond.ops ELSE {}

\* the operator structure of a query: its fields, each with its operators
Structure(query) == [ f \in DOMAIN query |-> OperatorsOf(query[f]) ]

\* the operators an operator suffix stands for
SuffixOperators(op) ==
    IF op = "eq" THEN {}
    ELSE IF op = "regex" THEN { "$regex", "$options" }
    ELSE IF op = "range" THEN { "$gte", "$lte" }
    ELSE { "$" \o op }

\* the structure the keys of the filters determine: every field named by a
\* key, with the operators of the suffix of the last key that names it
KeyStructure(filters) ==
    [ f \in { key_field(filters[i].key) : i \in DOMAIN filters } |->
        LET last == CHOOSE i \in DOMAIN filters :
                        /\ key_field(filters[i].key) = f
                        /\ \A j \in DOMAIN filters :
                               key_field(filters[j].key) = f => j <= i
        IN  SuffixOperators(key_operator(filters[last].key)) ]

\* C26 as stated: build_filter is injection-resistant.  The operators of
\* the built query are determined solely by the operator suffixes of the
\* keys; a value is only ever a comparison operand and never read as an
\* operator, operator-shaped documents included, so two specs with the same
\* keys produce queries with the same operator structure.
C26_OperatorsDeterminedByKeys ==
    request.op = "build_filter" =>
        Structure(request.ret) = KeyStructure(request.filters)

\* no value given for equality is a dict, and every range has two members
ValuesArePlain(filters) ==
    \A i \in DOMAIN filters :
        /\ key_operator(filters[i].key) = "eq"
               => filters[i].value.kind # "dict"
        /\ key_operator(filters[i].key) = "range"
               => Len(filters[i].value.v) = 2

\* what holds: the keys determine the operator structure when no equality
\* value is a dict and every range has two members; a dict given to any
\* other suffix stays the operand of that suffix's operator
C26_OperatorsDeterminedByKeysForPlainValues ==
    ( request.op = "build_filter" /\ ValuesArePlain(request.filters) ) =>
        Structure(request.ret) = KeyStructure(request.filters)

\* the filters {"name": {"$ne": "b"}}: the query has the operator $ne on
\* name, and a document whose name is not the one asked for matches it
C26_Witness ==
    /\ request.op = "build_filter"
    /\ Len(request.filters) = 1
    /\ request.filters[1].key = << "name" >>
    /\ request.filters[1].value.kind = "dict"
    /\ OperatorsOf(request.ret["name"]) = { "$ne" }
    /\ Matches("name" :> Str(<< "a" >>), request.ret)

(***************************************************************************)
(* introspect: the primary type of a field path                            *)
(***************************************************************************)
\* the documents introspect sampled
Sampled == SubSeq(documents_of(store), 1,
                  IF Len(store) < request.sample_size
                  THEN Len(store) ELSE request.sample_size)

RECURSIVE OccurrencesIn(_, _, _)
\* the values a document holds at a path, nested documents and the first
\* member of a list included
OccurrencesIn(doc, prefix, path) ==
    IF doc = << >> THEN << >>
    ELSE LET p == prefix \o Head(doc)[1]
             value == Head(doc)[2]
             here == IF p = path THEN << value >> ELSE << >>
             below ==
                 IF value.kind = "dict"
                 THEN OccurrencesIn(value.v, p \o ".", path)
                 ELSE IF /\ value.kind = "list"
                         /\ value.v # << >>
                         /\ value.v[1].kind = "dict"
                 THEN OccurrencesIn(value.v[1].v, p \o ".[].", path)
                 ELSE << >>
         IN  here \o below \o OccurrencesIn(Tail(doc), prefix, path)

RECURSIVE Occurrences(_, _)
\* the sampled occurrences of a path, in the order they were sampled
Occurrences(documents, path) ==
    IF documents = << >> THEN << >>
    ELSE OccurrencesIn(Head(documents), "", path)
             \o Occurrences(Tail(documents), path)

\* how many of the occurrences are classified as the tag
TagCount(occ, tag) ==
    Cardinality({ i \in DOMAIN occ : detect_type(occ[i]) = tag })

\* the mode of the histogram in which every occurrence counts once for
\* its tag; of the tags that share the highest count, the one seen first
ModeOf(occ) ==
    LET first == CHOOSE i \in DOMAIN occ :
            /\ \A j \in DOMAIN occ :
                   TagCount(occ, detect_type(occ[j]))
                       <= TagCount(occ, detect_type(occ[i]))
            /\ \A j \in 1..(i - 1) :
                   TagCount(occ, detect_type(occ[j]))
                       < TagCount(occ, detect_type(occ[i]))
    IN  detect_type(occ[first])

\* C23 as stated: for every field path of an introspected schema the
\* primary type is the mode of the path's type histogram, where every
\* sampled occurrence of the path contributes exactly one count to the tag
\* of its value; ties go to the tag seen first.
C23_PrimaryTypeIsModeOfOccurrences ==
    request.op = "introspect" =>
        \A i \in DOMAIN request.ret :
            request.ret[i].type
                = ModeOf(Occurrences(Sampled, request.ret[i].path))

\* the weight the code gives an occurrence: two for a document and for a
\* list with members, one for every other value
Weight(value) ==
    IF value.kind = "dict" \/ (value.kind = "list" /\ value.v # << >>)
    THEN 2 ELSE 1

RECURSIVE WeightedCount(_, _)
WeightedCount(occ, tag) ==
    IF occ = << >> THEN 0
    ELSE ( IF detect_type(Head(occ)) = tag THEN Weight(Head(occ)) ELSE 0 )
             + WeightedCount(Tail(occ), tag)

WeightedModeOf(occ) ==
    LET first == CHOOSE i \in DOMAIN occ :
            /\ \A j \in DOMAIN occ :
                   WeightedCount(occ, detect_type(occ[j]))
                       <= WeightedCount(occ, detect_type(occ[i]))
            /\ \A j \in 1..(i - 1) :
                   WeightedCount(occ, detect_type(occ[j]))
                       < WeightedCount(occ, detect_type(occ[i]))
    IN  detect_type(occ[first])

\* what holds: the primary type is the mode of the histogram in which an
\* embedded document and a list with members count twice and every other
\* occurrence once, ties going to the tag seen first
C23_PrimaryTypeIsModeOfWeightedOccurrences ==
    request.op = "introspect" =>
        \A i \in DOMAIN request.ret :
            request.ret[i].type
                = WeightedModeOf(Occurrences(Sampled, request.ret[i].path))

\* a path sampled once as an embedded document and then twice as a string
\* is reported as embedded
C23_Witness ==
    /\ request.op = "introspect"
    /\ \E i \in DOMAIN request.ret :
          LET occ == Occurrences(Sampled, request.ret[i].path)
          IN  /\ Len(occ) = 3
              /\ occ[1].kind = "dict"
              /\ occ[2].kind = "str"
              /\ occ[3].kind = "str"
              /\ request.ret[i].type = "embedded"

(***************************************************************************)
(* with_retry: the bound on the attempts, and which errors are retried     *)
(***************************************************************************)
\* the call in hand: the finished one, or else the frame of the running one
RetryLog == IF request.op = "with_retry" THEN request ELSE store

\* the error is in the allowlist of codes, or its message has a keyword
ClassifiedTransient(e) ==
    \/ e.has_code /\ e.code \in { 112, 117, 262, 11600, 11602 }
    \/ \E keyword \in TransientKeywords :
           \E i \in 1..Len(e.msg) :
               /\ i + Len(keyword) - 1 <= Len(e.msg)
               /\ \A j \in 1..Len(keyword) :
                      Lower(e.msg[i + j - 1]) = keyword[j]

\* the invocation failed with a transient store error
TransientStoreError(o) ==
    /\ ~ o.ok
    /\ o.error.type \in PyMongoErrors
    /\ ClassifiedTransient(o.error)

\* the finished call returned the first success and raised the last
\* transient store error when nothing else happened
RetryOutcome ==
    LET n == Len(request.outcomes)
    IN  /\ \A i \in 1..n :
               request.outcomes[i].ok =>
                   /\ i = n
                   /\ request.err = NoError
                   /\ request.ret = request.outcomes[i].value
        /\ ( /\ n >= 1
             /\ \A i \in 1..n : TransientStoreError(request.outcomes[i]) )
               => request.raised = request.outcomes[n].error

RetryAttemptsBounded ==
    /\ Len(RetryLog.outcomes) <= RetryLog.max_retries
    /\ request.op = "with_retry" =>
           /\ Len(request.outcomes) >= 1
           /\ RetryOutcome

RetryRunning == store.pc # "idle"
RetryFinished == request.op = "with_retry"

\* C24 as stated: with_retry is a bounded retry.  For every max_retries it
\* always terminates, invokes the operation at least once and at most
\* max_retries times, returns the result of the first successful invocation
\* without invoking the operation again, and when every attempt fails with
\* a transient store error it raises that last store error.
C24_BoundedRetry ==
    /\ []RetryAttemptsBounded
    /\ RetryRunning ~> RetryFinished

RetryAttemptsBoundedWhenPositive ==
    /\ RetryLog.max_retries >= 1 =>
           Len(RetryLog.outcomes) <= RetryLog.max_retries
    /\ request.op = "with_retry" =>
           IF request.max_retries >= 1
           THEN /\ Len(request.outcomes) >= 1
                /\ RetryOutcome
           ELSE /\ request.outcomes = << >>
                /\ request.raised.type = "TypeError"

\* what holds: with_retry always terminates; with max_retries of at least
\* one it invokes the operation at least once and at most max_retries
\* times, returns the first success and raises the last transient store
\* error when every attempt failed with one; with max_retries of zero it
\* never invokes the operation and raises a TypeError
C24_BoundedRetryForPositiveMaxRetries ==
    /\ []RetryAttemptsBoundedWhenPositive
    /\ RetryRunning ~> RetryFinished

\* every one of max_retries = 3 attempts failed with a transient store
\* error: three invocations, two waits, the last error raised
C24_Witness ==
    /\ request.op = "with_retry"
    /\ request.max_retries = 3
    /\ Len(request.outcomes) = 3
    /\ \A i \in 1..3 : TransientStoreError(request.outcomes[i])
    /\ request.waits = << 1, 2 >>
    /\ request.raised = request.outcomes[3].error

\* C25: in with_retry a non-transient error propagates immediately: an
\* invocation that raises an error neither in the allowlist of codes nor
\* matching a keyword is the last one, that same error reaches the caller,
\* and no backoff wait follows it, whichever attempt it is; only errors
\* classified transient are followed by another attempt or by a wait.
C25_NonTransientErrorPropagates ==
    LET outcomes == RetryLog.outcomes
        waits == RetryLog.waits
    IN  /\ \A i \in 1..Len(outcomes) :
               ( ~ outcomes[i].ok /\ ~ ClassifiedTransient(outcomes[i].error) )
                   => /\ request.op = "with_retry"
                      /\ i = Len(outcomes)
                      /\ Len(waits) = i - 1
                      /\ request.raised = outcomes[i].error
        /\ \A i \in 1..(Len(outcomes) - 1) :
               ~ outcomes[i].ok /\ ClassifiedTransient(outcomes[i].error)
        /\ \A i \in 1..Len(waits) :
               /\ i <= Len(outcomes)
               /\ ~ outcomes[i].ok
               /\ ClassifiedTransient(outcomes[i].error)

\* the second attempt raised a duplicate-key error after a write conflict:
\* two invocations, the one wait before the second, that error raised
C25_Witness ==
    /\ request.op = "with_retry"
    /\ request.max_retries = 3
    /\ Len(request.outcomes) = 2
    /\ request.outcomes[1].error.code = 112
    /\ request.outcomes[2].error.code = 11000
    /\ request.waits = << 1 >>
    /\ request.raised = request.outcomes[2].error

====
